---- MODULE Spec2Model ----
(***************************************************************************)
(* A model of the file_io crate: thin wrappers over std::fs and std::env   *)
(* (create/delete/copy/load/save), the WalkDir-driven folder copy, and the *)
(* CdGuard scoped change of the process-wide working directory.            *)
(*                                                                         *)
(* The file system is a finite tree: a path is a sequence of names, the    *)
(* root is the empty sequence, and every path is absolute.  MaxDepth       *)
(* stands for the operating system's limit on the length of a path.       *)
(***************************************************************************)
EXTENDS Naturals, Sequences, FiniteSets, TLC

VARIABLES
    fs,      \* the file system: path -> node
    pre,     \* history: [fs] when the last file-system call started
    cwd,     \* the process-wide current working directory
    cwd0,    \* history: the working directory the process started in
    guards,  \* every CdGuard constructed so far, in construction order
    mode,    \* "run" | "unwind" (a panic is unwinding) | "abort"
    pc,      \* "idle" | "copy_folder" (inside copy_folder's for loop)
    walk,    \* the WalkDir iterator of the running copy_folder
    last,    \* the last library call: name, arguments, outcome
    prev,    \* history: last as it was when the last file-system call started
    nops,    \* number of library calls made so far
    threads  \* the threads of the process that use a guard concurrently

vars == <<fs, pre, cwd, cwd0, guards, mode, pc, walk, last, prev, nops, threads>>

----------------------------------------------------------------------------
(* Bounds *)

MaxDepth == 3
MaxOps == 2
MaxGuards == 2

Names == {"a", "b"}

Root == <<>>

RECURSIVE PathsUpTo(_)
PathsUpTo(n) ==
    IF n = 0 THEN {Root}
    ELSE LET shorter == PathsUpTo(n - 1)
         IN  shorter \cup {Append(p, x) : p \in shorter, x \in Names}

\* Every path the system can name.
Paths == PathsUpTo(MaxDepth)

----------------------------------------------------------------------------
(* Paths (std::path) *)

\* Path::parent of a path that has one.
Parent(p) == SubSeq(p, 1, Len(p) - 1)

\* Path::starts_with: q is p or an ancestor of p.
IsPrefix(q, p) == Len(q) <= Len(p) /\ SubSeq(p, 1, Len(q)) = q

ProperAncestors(p) == {SubSeq(p, 1, n) : n \in 0..(Len(p) - 1)}

\* entry_path.strip_prefix(from).unwrap()
StripPrefix(p, from) == SubSeq(p, Len(from) + 1, Len(p))

\* to.join(rel)
Join(to, rel) == to \o rel

----------------------------------------------------------------------------
(* Text and bytes.  A text is a sequence of code points below 2048; a file *)
(* holds bytes.  std::fs::write stores the UTF-8 encoding of a &str and    *)
(* std::fs::read_to_string validates and decodes the bytes it reads.       *)

Texts == {<<>>, <<97>>, <<233, 97>>}

\* Bytes that are not the encoding of any text (a binary file).
Binary == <<255>>

EncodeChar(c) == IF c < 128 THEN <<c>> ELSE <<192 + (c \div 64), 128 + (c % 64)>>

RECURSIVE Utf8Encode(_)
Utf8Encode(t) == IF t = <<>> THEN <<>> ELSE EncodeChar(Head(t)) \o Utf8Encode(Tail(t))

\* String::from_utf8: [ok |-> FALSE] on the first invalid sequence.
RECURSIVE Utf8Decode(_)
Utf8Decode(b) ==
    IF b = <<>> THEN [ok |-> TRUE, text |-> <<>>]
    ELSE IF b[1] < 128
         THEN LET r == Utf8Decode(Tail(b))
              IN  [ok |-> r.ok, text |-> <<b[1]>> \o r.text]
    ELSE IF b[1] >= 194 /\ b[1] <= 223 /\ Len(b) >= 2 /\ b[2] >= 128 /\ b[2] <= 191
         THEN LET r == Utf8Decode(Tail(Tail(b)))
              IN  [ok |-> r.ok, text |-> <<(b[1] - 192) * 64 + (b[2] - 128)>> \o r.text]
    ELSE [ok |-> FALSE, text |-> <<>>]

----------------------------------------------------------------------------
(* File-system nodes and the std::fs / std::path queries the crate uses *)

Absent == [kind |-> "absent", data |-> <<>>]
Dir == [kind |-> "dir", data |-> <<>>]
\* A directory the process may neither read nor search (mode 000): it is seen
\* as a directory from outside, and nothing inside it can be reached.
Locked == [kind |-> "locked", data |-> <<>>]
File(bytes) == [kind |-> "file", data |-> bytes]

\* The node at p; a path longer than the system's limit names nothing.
Node(f, p) == IF p \in Paths THEN f[p] ELSE Absent

exists(f, p) == Node(f, p).kind # "absent"
is_file(f, p) == Node(f, p).kind = "file"
is_dir(f, p) == Node(f, p).kind \in {"dir", "locked"}
\* A directory whose entries can be read and reached.
Enterable(f, p) == Node(f, p).kind = "dir"

Children(f, d) == {n \in Names : exists(f, d \o <<n>>)}

\* The regular files at any depth under d (d itself when d is a file).
FilesUnder(f, d) == {p \in Paths : IsPrefix(d, p) /\ is_file(f, p)}

\* A tree: the root is a directory, and an entry exists only inside a directory.
WellFormed(f) ==
    /\ f[Root] = Dir
    /\ \A p \in Paths \ {Root} : exists(f, p) => Enterable(f, Parent(p))

\* mkdir(2): "ok" and the new tree, or the error kind.
Mkdir(f, p) ==
    IF Len(p) > MaxDepth THEN [err |-> "NameTooLong", fs |-> f]
    ELSE IF exists(f, p) THEN [err |-> "AlreadyExists", fs |-> f]
    ELSE IF Enterable(f, Parent(p)) THEN [err |-> "ok", fs |-> [f EXCEPT ![p] = Dir]]
    ELSE IF \E q \in ProperAncestors(p) : Node(f, q).kind = "locked"
         THEN [err |-> "PermissionDenied", fs |-> f]
    ELSE IF is_file(f, Parent(p)) THEN [err |-> "NotADirectory", fs |-> f]
    ELSE IF \E q \in ProperAncestors(p) : is_file(f, q)
         THEN [err |-> "NotADirectory", fs |-> f]
    ELSE [err |-> "NotFound", fs |-> f]

\* std::fs::create_dir_all: mkdir; on NotFound create the parent first and retry.
RECURSIVE create_dir_all(_, _)
create_dir_all(f, p) ==
    LET m == Mkdir(f, p)
    IN  IF m.err = "ok" THEN [ok |-> TRUE, fs |-> m.fs]
        ELSE IF m.err # "NotFound"
             THEN [ok |-> is_dir(f, p), fs |-> f]
        ELSE IF p = Root THEN [ok |-> FALSE, fs |-> f]
        ELSE LET up == create_dir_all(f, Parent(p))
             IN  IF ~up.ok THEN [ok |-> FALSE, fs |-> up.fs]
                 ELSE LET m2 == Mkdir(up.fs, p)
                      IN  IF m2.err = "ok" THEN [ok |-> TRUE, fs |-> m2.fs]
                          ELSE [ok |-> is_dir(up.fs, p), fs |-> up.fs]

\* open(to, O_WRONLY | O_CREAT | O_TRUNC) succeeds.
CanOpenForWrite(f, p) ==
    /\ p \in Paths
    /\ p # Root
    /\ ~is_dir(f, p)
    /\ Enterable(f, Parent(p))

\* std::fs::write(path, bytes)
fs_write(f, p, bytes) ==
    IF CanOpenForWrite(f, p)
    THEN [ok |-> TRUE, fs |-> [f EXCEPT ![p] = File(bytes)]]
    ELSE [ok |-> FALSE, fs |-> f]

\* std::fs::copy(from, to): the set of outcomes.  The source must be a regular
\* file; the destination is opened with truncation before the source is read,
\* so copying a file onto itself leaves it as it was or empties it, depending
\* on the platform.
CopySameFile(f, p) ==
    {[ok |-> TRUE, fs |-> f], [ok |-> TRUE, fs |-> [f EXCEPT ![p] = File(<<>>)]]}

fs_copy(f, from, to) ==
    IF ~is_file(f, from) \/ ~CanOpenForWrite(f, to) THEN {[ok |-> FALSE, fs |-> f]}
    ELSE IF from = to THEN CopySameFile(f, from)
    ELSE {[ok |-> TRUE, fs |-> [f EXCEPT ![to] = File(f[from].data)]]}

----------------------------------------------------------------------------
(* The crate's functions, as functions of the file system.  Each returns   *)
(* [ok, fs]: ok = FALSE is a panic, with the file system as the panic left *)
(* it.                                                                     *)

\* create_folder with create_dir in place of create_dir_all.
create_folder_NotRecursive(f, p) ==
    IF ~exists(f, p)
    THEN LET m == Mkdir(f, p) IN [ok |-> m.err = "ok", fs |-> m.fs]
    ELSE [ok |-> TRUE, fs |-> f]

\* create.rs: create_folder
create_folder(f, p) ==
    IF ~exists(f, p) THEN create_dir_all(f, p) ELSE [ok |-> TRUE, fs |-> f]

\* create.rs: create_folder_for_file
create_folder_for_file(f, p) ==
    IF p # Root THEN create_folder(f, Parent(p)) ELSE [ok |-> TRUE, fs |-> f]

\* save_string_to_file opening the file for append instead of truncating it.
save_string_to_file_Append(f, content, p) ==
    LET c == create_folder_for_file(f, p)
    IN  IF ~c.ok THEN c
        ELSE fs_write(c.fs, p, Node(c.fs, p).data \o Utf8Encode(content))

\* save.rs: save_string_to_file
save_string_to_file(f, content, p) ==
    LET c == create_folder_for_file(f, p)
    IN  IF ~c.ok THEN c ELSE fs_write(c.fs, p, Utf8Encode(content))

\* load.rs: load_file_as_string
load_file_as_string(f, p) ==
    IF ~is_file(f, p) THEN [ok |-> FALSE, text |-> <<>>]
    ELSE Utf8Decode(f[p].data)

\* copy_file that leaves an existing destination alone.
copy_file_KeepExisting(f, from, to) ==
    LET c == create_folder_for_file(f, to)
    IN  IF ~c.ok THEN {c}
        ELSE IF exists(c.fs, to) THEN {[ok |-> TRUE, fs |-> c.fs]}
        ELSE fs_copy(c.fs, from, to)

\* copy.rs: copy_file (the set of outcomes)
copy_file(f, from, to) ==
    LET c == create_folder_for_file(f, to)
    IN  IF ~c.ok THEN {c} ELSE fs_copy(c.fs, from, to)

----------------------------------------------------------------------------
(* Library calls as actions.  A call is made only while no panic is        *)
(* unwinding and no other call is running (the crate is single-threaded    *)
(* and blocking).  A panicking call leaves mode = "unwind".                *)

NoCall ==
    [op |-> "none", a |-> Root, b |-> Root, t |-> <<>>, g |-> 0,
     res |-> "ok", ret |-> <<>>]

Call(op, a, b, t, g, ok, ret) ==
    [op |-> op, a |-> a, b |-> b, t |-> t, g |-> g,
     res |-> IF ok THEN "ok" ELSE "panic", ret |-> ret]

Snapshot == [fs |-> fs]

CanCall == mode = "run" /\ pc = "idle" /\ nops < MaxOps

\* A call that leaves the working directory alone.
Returned(op, a, b, t, ok, ret, f2) ==
    /\ cwd' = cwd
    /\ fs' = f2
    /\ pre' = Snapshot
    /\ last' = Call(op, a, b, t, 0, ok, ret)
    /\ prev' = last
    /\ mode' = IF ok THEN "run" ELSE "unwind"
    /\ nops' = nops + 1
    /\ UNCHANGED <<cwd0, guards, pc, walk, threads>>

\* The paths and texts the calls of a behaviour are made with.
ArgPaths == {p \in Paths : Len(p) <= 2} \cup {<<"a", "b", "a">>}

CreateFolder(p) ==
    /\ CanCall
    /\ LET r == create_folder(fs, p)
       IN  Returned("create_folder", p, Root, <<>>, r.ok, <<>>, r.fs)

CreateFolderForFile(p) ==
    /\ CanCall
    /\ LET r == create_folder_for_file(fs, p)
       IN  Returned("create_folder_for_file", p, Root, <<>>, r.ok, <<>>, r.fs)

SaveStringToFile(t, p) ==
    /\ CanCall
    /\ LET r == save_string_to_file(fs, t, p)
       IN  Returned("save_string_to_file", p, Root, t, r.ok, <<>>, r.fs)

LoadFileAsString(p) ==
    /\ CanCall
    /\ LET r == load_file_as_string(fs, p)
       IN  Returned("load_file_as_string", p, Root, <<>>, r.ok, r.text, fs)

CopyFile(from, to) ==
    /\ CanCall
    /\ \E r \in copy_file(fs, from, to) :
           Returned("copy_file", from, to, <<>>, r.ok, <<>>, r.fs)

----------------------------------------------------------------------------
(* Initial file systems: trees the calls above can build in a fresh        *)
(* temporary directory, given by their files and their empty folders.      *)

Tree(files, folders) ==
    [p \in Paths |->
        IF \E e \in files : e[1] = p
        THEN File((CHOOSE e \in files : e[1] = p)[2])
        ELSE IF p = Root \/ p \in folders
                \/ \E e \in files : p \in ProperAncestors(e[1])
                \/ \E d \in folders : p \in ProperAncestors(d)
        THEN Dir
        ELSE Absent]

DataX == Utf8Encode(<<97>>)
DataY == Utf8Encode(<<233, 97>>)

FileSeeds ==
    { Tree({}, {}),
      Tree({<<<<"a">>, DataX>>, <<<<"b", "a">>, DataY>>}, {}),
      Tree({<<<<"a", "a">>, DataY>>, <<<<"b">>, Binary>>}, {<<"a", "b">>}) }

InitCommon ==
    /\ cwd0 = cwd.path
    /\ guards = <<>>
    /\ pre = Snapshot
    /\ mode = "run"
    /\ pc = "idle"
    /\ walk = <<>>
    /\ last = NoCall
    /\ prev = NoCall
    /\ nops = 0
    /\ threads = <<>>

InitFile == fs \in FileSeeds /\ cwd = [path |-> Root, gone |-> FALSE] /\ InitCommon

NextFile ==
    \/ \E p \in ArgPaths : CreateFolder(p)
    \/ \E p \in ArgPaths : CreateFolderForFile(p)
    \/ \E p \in ArgPaths, t \in Texts : SaveStringToFile(t, p)
    \/ \E p \in ArgPaths : LoadFileAsString(p)
    \/ \E p \in ArgPaths, q \in ArgPaths : CopyFile(p, q)

SpecFile == InitFile /\ [][NextFile]_vars

----------------------------------------------------------------------------
(* copy_folder, one iteration of its for loop at a time.                   *)
(*                                                                         *)
(* WalkDir::new(from).into_iter() yields the root first and then walks     *)
(* depth first: a directory is opened (read_dir) when its entry is         *)
(* yielded, and its entries are read lazily, one per call of next(), in    *)
(* the order the operating system returns them.  An error (a missing root) *)
(* is dropped by filter_map(Result::ok).  An entry created in a directory  *)
(* after it was opened may or may not be returned by a later read          *)
(* (readdir leaves it unspecified), so both are possible here.             *)

MaxCopies == 1

WalkDir_new(from, to) == [from |-> from, to |-> to, root |-> TRUE, stack |-> <<>>]

\* read_dir(d): the entries present at the time of opening, none returned yet.
OpenDir(f, d) == [dir |-> d, atopen |-> Children(f, d), seen |-> {}]

\* The entries the next call of next() may yield.
NextEntries(f, w) ==
    IF w.root THEN (IF exists(f, w.from) THEN {w.from} ELSE {})
    ELSE IF w.stack = <<>> THEN {}
    ELSE LET top == w.stack[Len(w.stack)]
         IN  {top.dir \o <<n>> : n \in Children(f, top.dir) \ top.seen}

\* An iterator that does not move past a regular file: the file it has
\* returned is still the next entry of its directory.
Yielded_FileAgain(w, f, e) ==
    LET n == Len(w.stack)
        marked == IF w.root THEN <<>>
                  ELSE IF is_dir(f, e)
                       THEN [w.stack EXCEPT ![n].seen = @ \cup {e[Len(e)]}]
                  ELSE w.stack
    IN  [w EXCEPT !.root = FALSE,
                  !.stack = IF is_dir(f, e) THEN Append(marked, OpenDir(f, e))
                            ELSE marked]

\* The iterator after yielding e: e is consumed, and opened if a directory.
Yielded(w, f, e) ==
    LET n == Len(w.stack)
        marked == IF w.root THEN <<>>
                  ELSE [w.stack EXCEPT ![n].seen = @ \cup {e[Len(e)]}]
    IN  [w EXCEPT !.root = FALSE,
                  !.stack = IF is_dir(f, e) THEN Append(marked, OpenDir(f, e))
                            ELSE marked]

\* The destination built from the entry's file name alone.
destination_path_Flat(from, to, entry_path) ==
    Join(to, <<entry_path[Len(entry_path)]>>)

\* to.join(entry_path.strip_prefix(from).unwrap())
destination_path(from, to, entry_path) == Join(to, StripPrefix(entry_path, from))

\* The body of the loop creating a counterpart for every folder it meets.
copy_folder_body_Placeholders(f, from, to, entry_path) ==
    IF is_dir(f, entry_path)
    THEN {create_folder(f, Join(to, StripPrefix(entry_path, from)))}
    ELSE IF ~is_file(f, entry_path) THEN {[ok |-> TRUE, fs |-> f]}
    ELSE IF entry_path = from
         THEN {[ok |-> FALSE, fs |-> create_folder_for_file(f, to).fs]}
    ELSE copy_file(f, entry_path, Join(to, StripPrefix(entry_path, from)))

\* The body of the loop undoing the call when a copy fails: the destination
\* folder is removed before the panic.
copy_folder_body_Rollback(f, from, to, entry_path) ==
    IF ~is_file(f, entry_path) THEN {[ok |-> TRUE, fs |-> f]}
    ELSE IF entry_path = from
         THEN {[ok |-> FALSE, fs |-> create_folder_for_file(f, to).fs]}
    ELSE {IF r.ok THEN r
          ELSE [ok |-> FALSE,
                fs |-> [q \in Paths |-> IF IsPrefix(to, q) /\ q # Root
                                         THEN Absent ELSE r.fs[q]]] :
             r \in copy_file(f, entry_path, Join(to, StripPrefix(entry_path, from)))}

\* The body of the loop for one entry (the set of outcomes).  For the root
\* entry the relative path is empty and to.join("") is to with a trailing
\* separator, which cannot be opened as a file.
copy_folder_body(f, from, to, entry_path) ==
    IF ~is_file(f, entry_path) THEN {[ok |-> TRUE, fs |-> f]}
    ELSE IF entry_path = from
         THEN {[ok |-> FALSE, fs |-> create_folder_for_file(f, to).fs]}
    ELSE copy_file(f, entry_path, destination_path(from, to, entry_path))

\* The call begins: the iterator is built.
CopyFolder(from, to) ==
    /\ CanCall
    /\ nops < MaxCopies
    /\ pc' = "copy_folder"
    /\ walk' = WalkDir_new(from, to)
    /\ pre' = Snapshot
    /\ prev' = last
    /\ last' = [Call("copy_folder", from, to, <<>>, 0, TRUE, {})
                   EXCEPT !.res = "running"]
    /\ UNCHANGED <<fs, cwd, cwd0, guards, mode, nops, threads>>

\* The history kept in the call's record when the body has run on the file
\* e: the copy made, as [from, to, data].
Copied(f2, from, to, e) ==
    LET dst == destination_path(from, to, e)
    IN  {[from |-> e, to |-> dst, data |-> Node(f2, dst).data]}

\* One iteration: next() yields an entry and the body runs on it.  The record
\* of the call keeps, as history, the copies made so far (ret) and the entry
\* the call panicked on (t).
CopyFolderEntry ==
    /\ pc = "copy_folder"
    /\ \E e \in NextEntries(fs, walk) :
         \E r \in copy_folder_body(fs, walk.from, walk.to, e) :
            /\ fs' = r.fs
            /\ IF r.ok
               THEN /\ walk' = Yielded(walk, fs, e)
                    /\ last' = [last EXCEPT !.ret =
                                   IF is_file(fs, e)
                                   THEN @ \cup Copied(r.fs, walk.from, walk.to, e)
                                   ELSE @]
                    /\ UNCHANGED <<pc, mode, nops>>
               ELSE /\ walk' = <<>>
                    /\ pc' = "idle"
                    /\ mode' = "unwind"
                    /\ last' = [last EXCEPT !.res = "panic", !.t = <<e>>]
                    /\ nops' = nops + 1
    /\ UNCHANGED <<pre, prev, cwd, cwd0, guards, threads>>

\* next() finds the innermost open directory exhausted and closes it.
CopyFolderLeaveDir ==
    /\ pc = "copy_folder"
    /\ ~walk.root
    /\ walk.stack # <<>>
    /\ LET n == Len(walk.stack)
       IN  /\ walk.stack[n].atopen \subseteq walk.stack[n].seen
           /\ walk' = [walk EXCEPT !.stack = SubSeq(walk.stack, 1, n - 1)]
    /\ UNCHANGED <<fs, pre, cwd, cwd0, guards, mode, pc, last, prev, nops, threads>>

\* next() returns None: the loop ends and copy_folder returns.
CopyFolderReturn ==
    /\ pc = "copy_folder"
    /\ IF walk.root THEN ~exists(fs, walk.from) ELSE walk.stack = <<>>
    /\ pc' = "idle"
    /\ walk' = <<>>
    /\ last' = [last EXCEPT !.res = "ok"]
    /\ nops' = nops + 1
    /\ UNCHANGED <<fs, pre, cwd, cwd0, guards, mode, prev, threads>>

FolderArgs == {Root, <<"a">>, <<"b">>, <<"a", "a">>, <<"a", "b">>}

CopySeeds ==
    { Tree({<<<<"a", "a", "b">>, DataX>>, <<<<"a", "b">>, DataY>>,
            <<<<"b">>, Binary>>}, {}),
      Tree({<<<<"a", "a", "b">>, DataX>>, <<<<"b">>, DataY>>}, {}),
      Tree({<<<<"a", "a">>, DataX>>, <<<<"a", "b", "a">>, DataY>>,
            <<<<"b", "a">>, Binary>>, <<<<"b", "b", "b">>, DataY>>}, {}),
      Tree({<<<<"a">>, DataX>>, <<<<"b", "a">>, DataY>>}, {}),
      Tree({<<<<"a", "a", "a">>, DataX>>}, {<<"a", "b">>}),
      [Tree({<<<<"a", "a", "a">>, DataX>>}, {<<"a", "b">>})
          EXCEPT ![<<"a", "b">>] = Locked],
      Tree({<<<<"a", "a">>, DataX>>, <<<<"a", "b", "a">>, DataY>>,
            <<<<"a", "b", "b">>, DataX>>, <<<<"b", "b">>, DataY>>}, {}) }

InitCopy == fs \in CopySeeds /\ cwd = [path |-> Root, gone |-> FALSE] /\ InitCommon

NextCopy ==
    \/ \E from \in FolderArgs, to \in FolderArgs : CopyFolder(from, to)
    \/ CopyFolderEntry
    \/ CopyFolderLeaveDir
    \/ CopyFolderReturn

SpecCopy == InitCopy /\ [][NextCopy]_vars

\* A call that has begun keeps running: the loop is ordinary sequential code,
\* so each of its steps is taken when it is the one that can be.
SpecCopyFair ==
    /\ SpecCopy
    /\ WF_vars(CopyFolderEntry)
    /\ WF_vars(CopyFolderLeaveDir)
    /\ WF_vars(CopyFolderReturn)

----------------------------------------------------------------------------
(* modify.rs: replacing a string in a file.  Texts are sequences of code   *)
(* points; str::contains and str::replace match whole characters.          *)

\* old occurs in c at position i (the empty string occurs at every boundary).
MatchAt(c, old, i) ==
    /\ i + Len(old) <= Len(c) + 1
    /\ SubSeq(c, i, i + Len(old) - 1) = old

\* str::contains
str_contains(c, old) == \E i \in 1..(Len(c) + 1) : MatchAt(c, old, i)

\* str::match_indices: the start of every match found scanning from i, the
\* search resuming after the end of each match; the empty pattern matches at
\* every boundary, the end included.
RECURSIVE match_indices(_, _, _)
match_indices(c, old, i) ==
    IF i > Len(c) + 1 THEN <<>>
    ELSE IF old = <<>> THEN <<i>> \o match_indices(c, old, i + 1)
    ELSE IF MatchAt(c, old, i) THEN <<i>> \o match_indices(c, old, i + Len(old))
    ELSE match_indices(c, old, i + 1)

\* The loop of str::replace from its k-th match on: the text between the end
\* of the last match and the start of this one, then the replacement.
RECURSIVE replace_loop(_, _, _, _, _, _)
replace_loop(c, ms, k, last_end, old, new) ==
    IF k > Len(ms) THEN SubSeq(c, last_end, Len(c))
    ELSE SubSeq(c, last_end, ms[k] - 1) \o new
            \o replace_loop(c, ms, k + 1, ms[k] + Len(old), old, new)

\* str::replace that stops after the first match (str::replacen(.., 1)).
str_replace_First(c, old, new) ==
    LET ms == match_indices(c, old, 1)
    IN  replace_loop(c, IF ms = <<>> THEN ms ELSE <<ms[1]>>, 1, 1, old, new)

\* str::replace
str_replace(c, old, new) == replace_loop(c, match_indices(c, old, 1), 1, 1, old, new)

\* replace_str_in_file saving whether or not the string occurs.
replace_str_in_file_AlwaysSave(f, p, old, new) ==
    LET content == load_file_as_string(f, p)
    IN  IF ~content.ok THEN [ok |-> FALSE, fs |-> f, wrote |-> FALSE]
        ELSE LET s == save_string_to_file(f, str_replace(content.text, old, new), p)
             IN  [ok |-> s.ok, fs |-> s.fs, wrote |-> s.ok]

\* modify.rs: replace_str_in_file.  wrote tells whether the file was written.
replace_str_in_file(f, p, old, new) ==
    LET content == load_file_as_string(f, p)
    IN  IF ~content.ok THEN [ok |-> FALSE, fs |-> f, wrote |-> FALSE]
        ELSE IF str_contains(content.text, old)
        THEN LET s == save_string_to_file(f, str_replace(content.text, old, new), p)
             IN  [ok |-> s.ok, fs |-> s.fs, wrote |-> s.ok]
        ELSE [ok |-> TRUE, fs |-> f, wrote |-> FALSE]

MaxReplaces == 1

\* The longest text a call may produce.
MaxText == 32

\* The text of the file at p, if it is a file holding valid UTF-8.
IsTextFile(f, p) == is_file(f, p) /\ Utf8Decode(Node(f, p).data).ok
TextOf(f, p) == Utf8Decode(Node(f, p).data).text

\* Replacing old by new in the files under root keeps every text within
\* MaxText characters.
WithinMaxText(f, root, old, new) ==
    \A p \in FilesUnder(f, root) :
        IsTextFile(f, p) => Len(str_replace(TextOf(f, p), old, new)) <= MaxText

\* The call; its record keeps old and new in t and what was written in ret.
ReplaceStrInFile(p, old, new) ==
    /\ CanCall
    /\ nops < MaxReplaces
    /\ WithinMaxText(fs, p, old, new)
    /\ LET r == replace_str_in_file(fs, p, old, new)
       IN  Returned("replace_str_in_file", p, Root, <<old, new>>, r.ok,
                    IF r.wrote THEN <<p>> ELSE <<>>, r.fs)

\* The caller makes the call it has just made once more, with the same
\* arguments.
ReplaceStrInFileAgain ==
    /\ CanCall
    /\ nops <= MaxReplaces
    /\ last.op = "replace_str_in_file" /\ last.res = "ok"
    /\ WithinMaxText(fs, last.a, last.t[1], last.t[2])
    /\ LET r == replace_str_in_file(fs, last.a, last.t[1], last.t[2])
       IN  Returned("replace_str_in_file", last.a, Root, last.t, r.ok,
                    IF r.wrote THEN <<last.a>> ELSE <<>>, r.fs)

----------------------------------------------------------------------------
(* replace_str_in_files, one iteration of its for loop at a time.  The     *)
(* iterator is copy_folder's; the walk also records, as history, the files *)
(* the body was run on (tried), the files written (written), the lines     *)
(* printed to stderr (diag, the path each line names) and the calls of     *)
(* replace_str_in_file made, in order (calls, the path of each).           *)

\* The loop body with the single-file call not wrapped in catch_unwind.
replace_entry_NoCatch(f, root, e, old, new) ==
    IF ~is_file(f, e)
    THEN [ok |-> TRUE, fs |-> f, tried |-> {}, written |-> {}, diag |-> <<>>,
          calls |-> <<>>]
    ELSE LET r == replace_str_in_file(f, e, old, new)
         IN  [ok |-> r.ok, fs |-> r.fs, tried |-> {e},
              written |-> IF r.wrote THEN {e} ELSE {},
              diag |-> <<>>, calls |-> <<e>>]

\* The loop body looking only at the root and its immediate entries.
replace_entry_Shallow(f, root, e, old, new) ==
    IF ~is_file(f, e) \/ Len(e) > Len(root) + 1
    THEN [ok |-> TRUE, fs |-> f, tried |-> {}, written |-> {}, diag |-> <<>>,
          calls |-> <<>>]
    ELSE LET r == replace_str_in_file(f, e, old, new)
         IN  [ok |-> TRUE, fs |-> r.fs, tried |-> {e},
              written |-> IF r.wrote THEN {e} ELSE {},
              diag |-> IF r.ok THEN <<>> ELSE <<e>>, calls |-> <<e>>]

\* The loop body running the replacement a second time on the file it has
\* just rewritten.
replace_entry_Twice(f, root, e, old, new) ==
    IF ~is_file(f, e)
    THEN [ok |-> TRUE, fs |-> f, tried |-> {}, written |-> {}, diag |-> <<>>,
          calls |-> <<>>]
    ELSE LET r == replace_str_in_file(f, e, old, new)
             r2 == replace_str_in_file(r.fs, e, old, new)
         IN  [ok |-> TRUE, fs |-> r2.fs, tried |-> {e},
              written |-> IF r.wrote THEN {e} ELSE {},
              diag |-> IF r.ok THEN <<>> ELSE <<e>>, calls |-> <<e, e>>]

\* The loop body for the entry e: a panic of replace_str_in_file is caught
\* and reported on stderr, and the loop goes on (ok).
replace_entry(f, root, e, old, new) ==
    IF ~is_file(f, e)
    THEN [ok |-> TRUE, fs |-> f, tried |-> {}, written |-> {}, diag |-> <<>>,
          calls |-> <<>>]
    ELSE LET r == replace_str_in_file(f, e, old, new)
         IN  [ok |-> TRUE, fs |-> r.fs, tried |-> {e},
              written |-> IF r.wrote THEN {e} ELSE {},
              diag |-> IF r.ok THEN <<>> ELSE <<e>>, calls |-> <<e>>]

\* The call begins: the iterator is built.
ReplaceStrInFiles(path, old, new) ==
    /\ CanCall
    /\ nops < MaxReplaces
    /\ WithinMaxText(fs, path, old, new)
    /\ pc' = "replace_str_in_files"
    /\ walk' = [from |-> path, to |-> path, root |-> TRUE, stack |-> <<>>,
                old |-> old, new |-> new,
                tried |-> {}, written |-> {}, diag |-> <<>>, calls |-> <<>>]
    /\ pre' = Snapshot
    /\ prev' = last
    /\ last' = [Call("replace_str_in_files", path, Root, <<old, new>>, 0, TRUE, <<>>)
                   EXCEPT !.res = "running"]
    /\ UNCHANGED <<fs, cwd, cwd0, guards, mode, nops, threads>>

\* One iteration: next() yields an entry and the body runs on it.
ReplaceEntry ==
    /\ pc = "replace_str_in_files"
    /\ \E e \in NextEntries(fs, walk) :
         LET r == replace_entry(fs, walk.from, e, walk.old, walk.new)
         IN  /\ fs' = r.fs
             /\ IF r.ok
                THEN /\ walk' = [Yielded(walk, fs, e) EXCEPT
                                    !.tried = @ \cup r.tried,
                                    !.written = @ \cup r.written,
                                    !.diag = @ \o r.diag,
                                    !.calls = @ \o r.calls]
                     /\ UNCHANGED <<pc, mode, last, nops>>
                ELSE /\ walk' = <<>>
                     /\ pc' = "idle"
                     /\ mode' = "unwind"
                     /\ last' = [last EXCEPT !.res = "panic"]
                     /\ nops' = nops + 1
    /\ UNCHANGED <<pre, prev, cwd, cwd0, guards, threads>>

\* next() finds the innermost open directory exhausted and closes it.
ReplaceLeaveDir ==
    /\ pc = "replace_str_in_files"
    /\ ~walk.root
    /\ walk.stack # <<>>
    /\ LET n == Len(walk.stack)
       IN  /\ walk.stack[n].atopen \subseteq walk.stack[n].seen
           /\ walk' = [walk EXCEPT !.stack = SubSeq(walk.stack, 1, n - 1)]
    /\ UNCHANGED <<fs, pre, cwd, cwd0, guards, mode, pc, last, prev, nops, threads>>

\* next() returns None: the loop ends and replace_str_in_files returns.
ReplaceReturn ==
    /\ pc = "replace_str_in_files"
    /\ IF walk.root THEN ~exists(fs, walk.from) ELSE walk.stack = <<>>
    /\ pc' = "idle"
    /\ walk' = <<>>
    /\ last' = [last EXCEPT !.res = "ok",
                            !.ret = [tried |-> walk.tried, written |-> walk.written,
                                     diag |-> walk.diag, calls |-> walk.calls]]
    /\ nops' = nops + 1
    /\ UNCHANGED <<fs, pre, cwd, cwd0, guards, mode, prev, threads>>

TextAAA == <<97, 97, 97>>
TextALA == <<97, 65, 97>>

\* "Hello", "Goodbye", and "Hello, world, hello, Hello!"
TextHello == <<72, 101, 108, 108, 111>>
TextGoodbye == <<71, 111, 111, 100, 98, 121, 101>>
TextGreeting ==
    TextHello \o <<44, 32, 119, 111, 114, 108, 100, 44, 32>>
        \o <<104, 101, 108, 108, 111, 44, 32>> \o TextHello \o <<33>>

Olds == {<<97>>, <<97, 97>>, <<65>>, <<>>}
News == {<<>>, <<98>>, <<97, 97>>}

\* The pairs <<old, new>> the calls of a behaviour are made with.
ReplacePairs == (Olds \X News) \cup {<<TextHello, TextGoodbye>>, <<<<97, 97>>, <<97>>>>}

ReplaceArgs == {Root, <<"a">>, <<"b">>, <<"b", "a">>, <<"a", "b">>}

ReplaceSeeds ==
    { Tree({<<<<"a">>, Utf8Encode(TextAAA)>>, <<<<"b", "a">>, Utf8Encode(TextALA)>>,
            <<<<"b", "b", "a">>, DataY>>}, {}),
      Tree({<<<<"a", "a">>, DataX>>, <<<<"a", "b">>, Binary>>,
            <<<<"b">>, Utf8Encode(TextALA)>>}, {}),
      Tree({<<<<"a">>, Binary>>, <<<<"b", "a">>, Utf8Encode(TextAAA)>>,
            <<<<"b", "b", "a">>, Binary>>, <<<<"b", "b", "b">>, DataX>>}, {}),
      Tree({<<<<"a">>, Utf8Encode(TextGreeting)>>,
            <<<<"b", "a">>, Utf8Encode(TextAAA)>>}, {<<"b", "b">>}) }

InitReplace ==
    fs \in ReplaceSeeds /\ cwd = [path |-> Root, gone |-> FALSE] /\ InitCommon

NextReplace ==
    \/ \E p \in ReplaceArgs, on \in ReplacePairs : ReplaceStrInFile(p, on[1], on[2])
    \/ ReplaceStrInFileAgain
    \/ \E p \in ReplaceArgs, on \in ReplacePairs : ReplaceStrInFiles(p, on[1], on[2])
    \/ ReplaceEntry
    \/ ReplaceLeaveDir
    \/ ReplaceReturn

SpecReplace == InitReplace /\ [][NextReplace]_vars

----------------------------------------------------------------------------
(* list.rs and print.rs: listing a folder and drawing a tree.              *)

\* The bytes of a name; names and paths are compared as Rust compares them,
\* component by component and byte by byte.
NameBytes(n) == IF n = "a" THEN <<97>> ELSE <<98>>

RECURSIVE BytesLess(_, _)
BytesLess(s, t) ==
    IF t = <<>> THEN FALSE
    ELSE IF s = <<>> THEN TRUE
    ELSE IF s[1] # t[1] THEN s[1] < t[1]
    ELSE BytesLess(Tail(s), Tail(t))

\* Ord for Path: p < q.
RECURSIVE PathLess(_, _)
PathLess(p, q) ==
    IF q = <<>> THEN FALSE
    ELSE IF p = <<>> THEN TRUE
    ELSE IF p[1] # q[1] THEN BytesLess(NameBytes(p[1]), NameBytes(q[1]))
    ELSE PathLess(Tail(p), Tail(q))

\* The orders in which the operating system may return the names of a folder.
Perms(S) == {s \in [1..Cardinality(S) -> S] : \A x \in S : \E i \in DOMAIN s : s[i] = x}

\* std::fs::read_dir(d) collected: the paths of the entries of d, in the
\* order the operating system returns them.
read_dir(f, d, order) ==
    LET IsEntry(n) == exists(f, d \o <<n>>)
        present == SelectSeq(order, IsEntry)
    IN  [i \in 1..Len(present) |-> d \o <<present[i]>>]

\* Vec::sort: insertion of x into a sorted sequence, and the sort itself.
RECURSIVE Insert(_, _)
Insert(sorted, x) ==
    IF sorted = <<>> THEN <<x>>
    ELSE IF PathLess(x, sorted[1]) THEN <<x>> \o sorted
    ELSE <<sorted[1]>> \o Insert(Tail(sorted), x)

\* A sort into descending order.
RECURSIVE sort_Descending(_)
sort_Descending(entries) ==
    IF entries = <<>> THEN <<>>
    ELSE LET rest == sort_Descending(Tail(entries))
             larger == SelectSeq(rest, LAMBDA y : PathLess(entries[1], y))
             smaller == SelectSeq(rest, LAMBDA y : ~PathLess(entries[1], y))
         IN  larger \o <<entries[1]>> \o smaller

RECURSIVE sort(_)
sort(entries) ==
    IF entries = <<>> THEN <<>> ELSE Insert(sort(Tail(entries)), entries[1])

\* list_folder_contents without the sort.
list_folder_contents_Unsorted(f, d, order) ==
    IF ~Enterable(f, d) THEN [ok |-> FALSE, entries |-> <<>>]
    ELSE [ok |-> TRUE, entries |-> read_dir(f, d, order)]

\* list.rs: list_folder_contents.  It panics on a path that is not a folder
\* and on a folder that cannot be read.
list_folder_contents(f, d, order) ==
    IF ~is_dir(f, d) THEN [ok |-> FALSE, entries |-> <<>>]
    ELSE IF ~Enterable(f, d) THEN [ok |-> FALSE, entries |-> <<>>]
    ELSE [ok |-> TRUE, entries |-> sort(read_dir(f, d, order))]

\* path.rs: get_last_path_component, of a path that has a component.
get_last_path_component(p) == NameBytes(p[Len(p)])

\* The pieces a line of the tree is made of, as code points: the connectors
\* U+251C U+2500 U+2500 space and U+2514 U+2500 U+2500 space, the
\* continuation U+2502 and three spaces, and four spaces.
Tee == <<9500, 9472, 9472, 32>>
Elbow == <<9492, 9472, 9472, 32>>
Bar == <<9474, 32, 32, 32>>
Blank == <<32, 32, 32, 32>>

\* path.display(): the components, each after a separator; "/" for the root.
RECURSIVE Components(_)
Components(p) ==
    IF p = <<>> THEN <<>> ELSE <<47>> \o NameBytes(p[1]) \o Components(Tail(p))

display(p) == IF p = Root THEN <<47>> ELSE Components(p)

\* A line written to the output: its text and (history) the entry it was
\* written for.  The first line is the root path.
Line(text, entry) == [text |-> text, entry |-> entry]

\* The prefix for the children of an entry, drawn as if it always had a
\* sibling after it.
new_prefix_AlwaysBar(prefix, is_last) == prefix \o Bar

\* The prefix for the children of an entry: format!("{}{}", prefix, ..).
new_prefix(prefix, is_last) == prefix \o (IF is_last THEN Blank ELSE Bar)

\* usize::MAX is 2^64 - 1; the largest number TLC has stands for it.
UsizeMax == 2147483647

\* a - b on usize: below zero the subtraction panics in a build with overflow
\* checks and wraps around in a build without them.
usize_sub(a, b, overflow_checks) ==
    IF a >= b THEN [ok |-> TRUE, val |-> a - b]
    ELSE IF overflow_checks THEN [ok |-> FALSE, val |-> 0]
    ELSE [ok |-> TRUE, val |-> UsizeMax - (b - a) + 1]

\* print.rs: helper, and its loop over the entries from the i-th on (i - 1
\* is the index enumerate() gives).  Each gives [ok, out]: the lines
\* written, and ok = FALSE if it panicked.
RECURSIVE helper(_, _, _, _, _, _)
RECURSIVE helper_loop(_, _, _, _, _, _)
helper(f, path, prefix, is_last, order, overflow_checks) ==
    LET name == get_last_path_component(path)
        connector == IF is_last THEN Elbow ELSE Tee
        line == Line(prefix \o connector \o name, path)
    IN  IF ~is_dir(f, path) THEN [ok |-> TRUE, out |-> <<line>>]
        ELSE LET l == list_folder_contents(f, path, order)
             IN  IF ~l.ok THEN [ok |-> FALSE, out |-> <<line>>]
                 ELSE LET r == helper_loop(f, l.entries, 1,
                                           new_prefix(prefix, is_last), order,
                                           overflow_checks)
                      IN  [ok |-> r.ok, out |-> <<line>> \o r.out]

\* The loop with entries.len() - 1 computed once, before the loop.
helper_loop_Hoisted(f, entries, i, prefix, order, overflow_checks) ==
    LET last_index == usize_sub(Len(entries), 1, overflow_checks)
    IN  IF ~last_index.ok THEN [ok |-> FALSE, out |-> <<>>]
        ELSE IF i > Len(entries) THEN [ok |-> TRUE, out |-> <<>>]
        ELSE LET h == helper(f, entries[i], prefix, i - 1 = last_index.val, order,
                             overflow_checks)
             IN  IF ~h.ok THEN h
                 ELSE LET r == helper_loop(f, entries, i + 1, prefix, order,
                                           overflow_checks)
                      IN  [ok |-> r.ok, out |-> h.out \o r.out]

\* for (i, entry) in entries.iter().enumerate(): the body, where
\* entries.len() - 1 is computed, runs only for an entry.
helper_loop(f, entries, i, prefix, order, overflow_checks) ==
    IF i > Len(entries) THEN [ok |-> TRUE, out |-> <<>>]
    ELSE LET last_index == usize_sub(Len(entries), 1, overflow_checks)
         IN  IF ~last_index.ok THEN [ok |-> FALSE, out |-> <<>>]
             ELSE LET h == helper(f, entries[i], prefix, i - 1 = last_index.val,
                                  order, overflow_checks)
                  IN  IF ~h.ok THEN h
                      ELSE LET r == helper_loop(f, entries, i + 1, prefix, order,
                                                overflow_checks)
                           IN  [ok |-> r.ok, out |-> h.out \o r.out]

\* print.rs: write_folder_tree
write_folder_tree(f, path, order, overflow_checks) ==
    LET first == Line(display(path), path)
        l == list_folder_contents(f, path, order)
    IN  IF ~l.ok THEN [ok |-> FALSE, out |-> <<first>>]
        ELSE LET r == helper_loop(f, l.entries, 1, <<>>, order, overflow_checks)
             IN  [ok |-> r.ok, out |-> <<first>> \o r.out]

ListFolderContents(p) ==
    /\ CanCall
    /\ \E order \in Perms(Names) :
          LET r == list_folder_contents(fs, p, order)
          IN  Returned("list_folder_contents", p, Root, <<>>, r.ok, r.entries, fs)

WriteFolderTree(p) ==
    /\ CanCall
    /\ \E order \in Perms(Names), overflow_checks \in BOOLEAN :
          LET r == write_folder_tree(fs, p, order, overflow_checks)
          IN  Returned("write_folder_tree", p, Root, <<>>, r.ok, r.out, fs)

TreeSeeds ==
    { Tree({}, {}),
      Tree({<<<<"a">>, DataX>>, <<<<"b", "a">>, DataY>>}, {<<"b", "b">>}),
      Tree({<<<<"a", "a", "b">>, DataX>>, <<<<"a", "b">>, DataY>>,
            <<<<"b", "a">>, Binary>>}, {}),
      [Tree({<<<<"a", "b">>, DataX>>}, {<<"a", "a">>, <<"b">>})
          EXCEPT ![<<"a", "a">>] = Locked],
      Tree({<<<<"b">>, DataX>>, <<<<"a", "b", "a">>, DataY>>}, {<<"a", "a">>}) }

InitTree == fs \in TreeSeeds /\ cwd = [path |-> Root, gone |-> FALSE] /\ InitCommon

NextTree ==
    \/ \E p \in ArgPaths : CreateFolder(p)
    \/ \E p \in ArgPaths : SaveStringToFile(<<97>>, p)
    \/ \E p \in ArgPaths : ListFolderContents(p)
    \/ \E p \in ArgPaths : WriteFolderTree(p)

SpecTree == InitTree /\ [][NextTree]_vars

----------------------------------------------------------------------------
(* delete.rs and cd.rs.  The working directory is [path, gone]: gone is    *)
(* TRUE once the directory the process is in has been removed, and then    *)
(* std::env::current_dir fails even if the path is created again.          *)

\* std::fs::remove_dir_all: a regular file at the root of the deletion is an
\* error, and so is a folder that cannot be read anywhere in the tree (what
\* was removed before reaching it is not modelled: no behaviour below deletes
\* a tree that holds such a folder).
remove_dir_all(f, p) ==
    IF Enterable(f, p) /\ p # Root /\ \A q \in Paths : IsPrefix(p, q) => f[q].kind # "locked"
    THEN [ok |-> TRUE, fs |-> [q \in Paths |-> IF IsPrefix(p, q) THEN Absent ELSE f[q]]]
    ELSE [ok |-> FALSE, fs |-> f]

\* delete.rs: delete_folder
delete_folder(f, p) ==
    IF exists(f, p) THEN remove_dir_all(f, p) ELSE [ok |-> TRUE, fs |-> f]

\* std::fs::remove_file (unlink): only something that is not a directory.
remove_file(f, p) ==
    IF is_file(f, p) THEN [ok |-> TRUE, fs |-> [f EXCEPT ![p] = Absent]]
    ELSE [ok |-> FALSE, fs |-> f]

\* delete_file calling remove_file without looking whether the path exists.
delete_file_NoExistsCheck(f, p) == remove_file(f, p)

\* delete.rs: delete_file
delete_file(f, p) ==
    IF exists(f, p) THEN remove_file(f, p) ELSE [ok |-> TRUE, fs |-> f]

\* path.rs: get_cwd (std::env::current_dir().expect(..))
get_cwd(c) == [ok |-> ~c.gone, path |-> c.path]

\* std::env::set_current_dir
set_current_dir(c, f, p) ==
    IF Enterable(f, p) THEN [ok |-> TRUE, cwd |-> [path |-> p, gone |-> FALSE]]
    ELSE [ok |-> FALSE, cwd |-> c]

\* CdGuard::new capturing the directory after it has changed to the target.
CdGuard_new_CaptureAfter(c, f, path) ==
    LET s == set_current_dir(c, f, path)
    IN  IF ~get_cwd(c).ok \/ ~s.ok THEN [ok |-> FALSE, cwd |-> c, made |-> <<>>]
        ELSE [ok |-> TRUE, cwd |-> s.cwd, made |-> <<get_cwd(s.cwd).path>>]

\* CdGuard::new building the guard before set_current_dir can fail: the panic
\* then unwinds through a live guard.
CdGuard_new_GuardFirst(c, f, path) ==
    LET o == get_cwd(c)
        s == set_current_dir(c, f, path)
    IN  IF ~o.ok THEN [ok |-> FALSE, cwd |-> c, made |-> <<>>]
        ELSE [ok |-> s.ok, cwd |-> s.cwd, made |-> <<o.path>>]

\* cd.rs: CdGuard::new (and cd, which only calls it).  made holds the
\* original_cwd of the guard constructed, if one is.
CdGuard_new(c, f, path) ==
    LET o == get_cwd(c)
    IN  IF ~o.ok THEN [ok |-> FALSE, cwd |-> c, made |-> <<>>]
        ELSE LET s == set_current_dir(c, f, path)
             IN  IF ~s.ok THEN [ok |-> FALSE, cwd |-> c, made |-> <<>>]
                 ELSE [ok |-> TRUE, cwd |-> s.cwd, made |-> <<o.path>>]

\* A drop that restores nothing while a panic unwinds.
CdGuard_drop_NotWhenPanicking(c, f, gs, i, unwinding) ==
    IF unwinding THEN [ok |-> TRUE, cwd |-> c, calls |-> 0]
    ELSE LET s == set_current_dir(c, f, gs[i].original_cwd)
         IN  [ok |-> s.ok, cwd |-> s.cwd, calls |-> 1]

\* A drop that restores the directory the first guard captured.
CdGuard_drop_FirstOriginal(c, f, gs, i, unwinding) ==
    LET s == set_current_dir(c, f, gs[1].original_cwd)
    IN  [ok |-> s.ok, cwd |-> s.cwd, calls |-> 1]

\* A drop that skips set_current_dir when the directory is already the original.
CdGuard_drop_SkipIfSame(c, f, gs, i, unwinding) ==
    IF c.path = gs[i].original_cwd THEN [ok |-> TRUE, cwd |-> c, calls |-> 0]
    ELSE LET s == set_current_dir(c, f, gs[i].original_cwd)
         IN  [ok |-> s.ok, cwd |-> s.cwd, calls |-> 1]

\* A drop that restores what the guard constructed last had captured, as a
\* single saved directory shared by all guards would.
CdGuard_drop_LatestOriginal(c, f, gs, i, unwinding) ==
    LET s == set_current_dir(c, f, gs[Len(gs)].original_cwd)
    IN  [ok |-> s.ok, cwd |-> s.cwd, calls |-> 1]

\* cd.rs: Drop for CdGuard, for guard i of gs.  calls counts the
\* set_current_dir(&original_cwd) calls the drop makes.
CdGuard_drop(c, f, gs, i, unwinding) ==
    LET s == set_current_dir(c, f, gs[i].original_cwd)
    IN  [ok |-> s.ok, cwd |-> s.cwd, calls |-> 1]

----------------------------------------------------------------------------
(* Guard actions.  A guard is [original_cwd, entered, live, restores,      *)
(* restored, lifo]: original_cwd is the struct's field; entered (the       *)
(* directory the process was in when cd was called), restores (how many    *)
(* times the guard's drop has called set_current_dir), restored (whether   *)
(* that call succeeded) and lifo (whether the guard was the innermost live *)
(* one when it was dropped) are history.                                   *)

Live == {i \in 1..Len(guards) : guards[i].live}

NewGuard(original) ==
    [original_cwd |-> original, entered |-> cwd.path, live |-> TRUE,
     restores |-> 0, restored |-> FALSE, lifo |-> TRUE]

Dropped(g, r, top) ==
    [g EXCEPT !.live = FALSE, !.restores = g.restores + r.calls,
              !.restored = r.ok, !.lifo = top]

\* let _cd = cd(path);
Cd(path) ==
    /\ mode = "run" /\ pc = "idle"
    /\ Len(guards) < MaxGuards
    /\ LET r == CdGuard_new(cwd, fs, path)
       IN  /\ cwd' = r.cwd
           /\ guards' = guards \o [k \in 1..Len(r.made) |-> NewGuard(r.made[k])]
           /\ last' = Call("cd", path, Root, <<>>, Len(guards) + Len(r.made), r.ok, <<>>)
           /\ mode' = IF r.ok THEN "run" ELSE "unwind"
    /\ UNCHANGED <<fs, pre, cwd0, pc, walk, prev, nops, threads>>

\* Guard i goes out of scope (or is passed to drop) while no panic unwinds.
Drop(i) ==
    /\ mode = "run" /\ pc = "idle"
    /\ i \in Live
    /\ LET r == CdGuard_drop(cwd, fs, guards, i, FALSE)
       IN  /\ cwd' = r.cwd
           /\ guards' = [guards EXCEPT ![i] = Dropped(guards[i], r, \A j \in Live : j <= i)]
           /\ last' = Call("drop", Root, Root, <<>>, i, r.ok, <<>>)
           /\ mode' = IF r.ok THEN "run" ELSE "unwind"
    /\ UNCHANGED <<fs, pre, cwd0, pc, walk, prev, nops, threads>>

\* The body of a scope that holds a live guard panics:
\* panic!("Simulated failure.").
BodyPanic ==
    /\ mode = "run" /\ pc = "idle"
    /\ Live # {}
    /\ mode' = "unwind"
    /\ last' = Call("panic", Root, Root, <<>>, 0, FALSE, <<>>)
    /\ UNCHANGED <<fs, pre, cwd, cwd0, guards, pc, walk, prev, nops, threads>>

\* The unwinding leaves the scope of the innermost live guard and drops it.  A
\* drop that panics while a panic unwinds aborts the process.
UnwindDrop ==
    /\ mode = "unwind"
    /\ Live # {}
    /\ LET i == CHOOSE j \in Live : \A k \in Live : k <= j
           r == CdGuard_drop(cwd, fs, guards, i, TRUE)
       IN  /\ cwd' = r.cwd
           /\ guards' = [guards EXCEPT ![i] = Dropped(guards[i], r, TRUE)]
           /\ last' = Call("unwind_drop", Root, Root, <<>>, i, r.ok, <<>>)
           /\ mode' = IF r.ok THEN "unwind" ELSE "abort"
    /\ UNCHANGED <<fs, pre, cwd0, pc, walk, prev, nops, threads>>

\* std::panic::catch_unwind around the scopes unwound so far catches the panic.
Caught ==
    /\ mode = "unwind"
    /\ mode' = "run"
    /\ last' = Call("caught", Root, Root, <<>>, 0, TRUE, <<>>)
    /\ UNCHANGED <<fs, pre, cwd, cwd0, guards, pc, walk, prev, nops, threads>>

\* A call that removes entries: the process's directory may go with them.
DeleteFolder(p) ==
    /\ CanCall
    /\ LET r == delete_folder(fs, p)
       IN  /\ fs' = r.fs
           /\ cwd' = [cwd EXCEPT !.gone = cwd.gone \/ ~exists(r.fs, cwd.path)]
           /\ last' = Call("delete_folder", p, Root, <<>>, 0, r.ok, <<>>)
           /\ mode' = IF r.ok THEN "run" ELSE "unwind"
    /\ pre' = Snapshot
    /\ prev' = last
    /\ nops' = nops + 1
    /\ UNCHANGED <<cwd0, guards, pc, walk, threads>>

GuardDirs == {<<"a">>, <<"a", "b">>, <<"b">>}

CdTargets == GuardDirs \cup {Root, <<"b", "a">>}

GuardSeeds == {Tree({}, GuardDirs), Tree({<<<<"b">>, DataX>>}, {<<"a", "b">>})}

InitGuard ==
    /\ fs \in GuardSeeds
    /\ cwd \in {[path |-> p, gone |-> FALSE] : p \in {Root, <<"a">>}}
    /\ InitCommon

NextGuard ==
    \/ \E p \in CdTargets : Cd(p)
    \/ \E i \in 1..MaxGuards : Drop(i)
    \/ BodyPanic
    \/ UnwindDrop
    \/ Caught
    \/ \E p \in GuardDirs : DeleteFolder(p)

SpecGuard == InitGuard /\ [][NextGuard]_vars

----------------------------------------------------------------------------
(* Deleting files and folders among the calls that create them. *)

\* No directory is removed, so the working directory stays.
DeleteFile(p) ==
    /\ CanCall
    /\ LET r == delete_file(fs, p)
       IN  Returned("delete_file", p, Root, <<>>, r.ok, <<>>, r.fs)

DeleteArgs == ArgPaths \ {Root}

InitDelete == fs \in FileSeeds /\ cwd = [path |-> Root, gone |-> FALSE] /\ InitCommon

NextDelete ==
    \/ \E p \in DeleteArgs : CreateFolder(p)
    \/ \E p \in DeleteArgs : SaveStringToFile(<<97>>, p)
    \/ \E p \in DeleteArgs : DeleteFolder(p)
    \/ \E p \in DeleteArgs : DeleteFile(p)

SpecDelete == InitDelete /\ [][NextDelete]_vars

----------------------------------------------------------------------------
(* Two threads of one process, each running  { let _cd = cd(target); .. }.  *)
(* The working directory belongs to the process, and CdGuard takes no      *)
(* lock: the statements of CdGuard::new and of the drop of one thread      *)
(* interleave with those of the other.  A thread is [pc, target,           *)
(* original_cwd, g, saw]: g is the index of its guard in guards, and saw   *)
(* (history) the directories get_cwd returned to it inside its scope.      *)

Threads == {1, 2}

NewThread ==
    [pc |-> "new", target |-> Root, original_cwd |-> Root, g |-> 0, saw |-> {}]

\* CdGuard::new, first statement: let original_cwd = get_cwd();
ThreadGetCwd(t, path) ==
    /\ threads[t].pc = "new"
    /\ LET o == get_cwd(cwd)
       IN  threads' = [threads EXCEPT ![t].pc = IF o.ok THEN "captured" ELSE "panicked",
                                      ![t].target = path,
                                      ![t].original_cwd = o.path]
    /\ UNCHANGED <<fs, pre, cwd, cwd0, guards, mode, pc, walk, last, prev, nops>>

\* CdGuard::new, second statement: set_current_dir(path), and the guard built.
ThreadSetCurrentDir(t) ==
    /\ threads[t].pc = "captured"
    /\ LET s == set_current_dir(cwd, fs, threads[t].target)
           made == IF s.ok THEN <<NewGuard(threads[t].original_cwd)>> ELSE <<>>
       IN  /\ cwd' = s.cwd
           /\ guards' = guards \o made
           /\ threads' = [threads EXCEPT ![t].pc = IF s.ok THEN "scope" ELSE "panicked",
                                          ![t].g = IF s.ok THEN Len(guards) + 1 ELSE 0]
           /\ last' = Call("thread_cd", threads[t].target, Root, <<>>,
                           Len(guards) + Len(made), s.ok, <<>>)
    /\ UNCHANGED <<fs, pre, cwd0, mode, pc, walk, prev, nops>>

\* The body of the scope reads the working directory: get_cwd().
ThreadBody(t) ==
    /\ threads[t].pc = "scope"
    /\ get_cwd(cwd).ok
    /\ get_cwd(cwd).path \notin threads[t].saw
    /\ threads' = [threads EXCEPT ![t].saw = @ \cup {get_cwd(cwd).path}]
    /\ UNCHANGED <<fs, pre, cwd, cwd0, guards, mode, pc, walk, last, prev, nops>>

\* The scope ends and the thread's guard is dropped.
ThreadDrop(t) ==
    /\ threads[t].pc = "scope"
    /\ LET i == threads[t].g
           r == CdGuard_drop(cwd, fs, guards, i, FALSE)
       IN  /\ cwd' = r.cwd
           /\ guards' = [guards EXCEPT ![i] = Dropped(guards[i], r, \A j \in Live : j <= i)]
           /\ threads' = [threads EXCEPT ![t].pc = IF r.ok THEN "done" ELSE "panicked"]
           /\ last' = Call("thread_drop", Root, Root, <<>>, i, r.ok, <<>>)
    /\ UNCHANGED <<fs, pre, cwd0, mode, pc, walk, prev, nops>>

InitRace ==
    /\ fs = Tree({}, GuardDirs)
    /\ cwd \in {[path |-> p, gone |-> FALSE] : p \in {Root, <<"a">>}}
    /\ cwd0 = cwd.path
    /\ guards = <<>>
    /\ pre = Snapshot
    /\ mode = "run"
    /\ pc = "idle"
    /\ walk = <<>>
    /\ last = NoCall
    /\ prev = NoCall
    /\ nops = 0
    /\ threads = [t \in Threads |-> NewThread]

NextRace ==
    \/ \E t \in Threads, p \in CdTargets : ThreadGetCwd(t, p)
    \/ \E t \in Threads : ThreadSetCurrentDir(t)
    \/ \E t \in Threads : ThreadBody(t)
    \/ \E t \in Threads : ThreadDrop(t)

SpecRace == InitRace /\ [][NextRace]_vars

----------------------------------------------------------------------------
(* path.rs: the parts of a path.  Here a path is the string the caller     *)
(* passes, a sequence of bytes (on Unix any bytes: an OsStr need not be    *)
(* UTF-8), taken apart as std::path::Path does.                            *)

MaxPathLen == 4

Slash == 47
Dot == 46

\* The bytes a path string is made of: '/', '.', 'a', and 0xFF, which occurs
\* in no UTF-8 text.
PathBytes == {Slash, Dot, 97, 255}

RECURSIVE StringsUpTo(_)
StringsUpTo(n) ==
    IF n = 0 THEN {<<>>}
    ELSE LET shorter == StringsUpTo(n - 1)
         IN  shorter \cup {Append(s, b) : s \in shorter, b \in PathBytes}

PathStrings == StringsUpTo(MaxPathLen)

\* The pieces of s between separators.
RECURSIVE Segments(_)
Segments(s) ==
    IF \A i \in 1..Len(s) : s[i] # Slash THEN <<s>>
    ELSE LET k == CHOOSE i \in 1..Len(s) :
                      s[i] = Slash /\ \A j \in 1..(i - 1) : s[j] # Slash
         IN  <<SubSeq(s, 1, k - 1)>> \o Segments(SubSeq(s, k + 1, Len(s)))

\* Path::components: the root if the path starts with a separator; empty
\* pieces and "." are skipped, except a "." that begins a relative path.
components(s) ==
    LET segs == Segments(s)
        has_root == s # <<>> /\ s[1] = Slash
        Comp(i) ==
            IF segs[i] = <<>> THEN [kind |-> "skip", name |-> <<>>]
            ELSE IF segs[i] = <<Dot>>
                 THEN [kind |-> IF i = 1 /\ ~has_root THEN "CurDir" ELSE "skip",
                       name |-> segs[i]]
            ELSE IF segs[i] = <<Dot, Dot>> THEN [kind |-> "ParentDir", name |-> segs[i]]
            ELSE [kind |-> "Normal", name |-> segs[i]]
        IsComponent(c) == c.kind # "skip"
    IN  (IF has_root THEN <<[kind |-> "RootDir", name |-> <<Slash>>]>> ELSE <<>>)
            \o SelectSeq([i \in 1..Len(segs) |-> Comp(i)], IsComponent)

\* An Option<&OsStr>.
None == [some |-> FALSE, bytes |-> <<>>]
Some(b) == [some |-> TRUE, bytes |-> b]

\* Path::file_name: the last component, if it is a normal one.
file_name(s) ==
    LET cs == components(s)
    IN  IF cs # <<>> /\ cs[Len(cs)].kind = "Normal" THEN Some(cs[Len(cs)].name)
        ELSE None

\* std's rsplit_file_at_dot: <<before, after>> the last dot of a file name.
rsplit_file_at_dot(file) ==
    IF file = <<Dot, Dot>> THEN <<Some(file), None>>
    ELSE IF \A i \in 1..Len(file) : file[i] # Dot THEN <<None, Some(file)>>
    ELSE LET k == CHOOSE i \in 1..Len(file) :
                      file[i] = Dot /\ \A j \in (i + 1)..Len(file) : file[j] # Dot
         IN  IF k = 1 THEN <<Some(file), None>>
             ELSE <<Some(SubSeq(file, 1, k - 1)), Some(SubSeq(file, k + 1, Len(file)))>>

\* Path::extension: before.and(after)
extension(s) ==
    LET n == file_name(s)
    IN  IF ~n.some THEN None
        ELSE LET ba == rsplit_file_at_dot(n.bytes)
             IN  IF ba[1].some THEN ba[2] ELSE None

\* Path::file_stem: before.or(after)
file_stem(s) ==
    LET n == file_name(s)
    IN  IF ~n.some THEN None
        ELSE LET ba == rsplit_file_at_dot(n.bytes)
             IN  IF ba[1].some THEN ba[1] ELSE ba[2]

\* OsStr::to_str: the text, if the bytes are UTF-8.
to_str(b) == Utf8Decode(b)

\* OsStr::to_string_lossy, for bytes that are ASCII or 0xFF: U+FFFD stands
\* for each byte that is not text.
to_string_lossy(b) == [i \in 1..Len(b) |-> IF b[i] < 128 THEN b[i] ELSE 65533]

\* path.rs: get_last_path_component.  [ok, text]: ok = FALSE is a panic.
get_last_path_component_str(s) ==
    LET cs == components(s)
    IN  IF cs = <<>> THEN [ok |-> FALSE, text |-> <<>>]
        ELSE [ok |-> TRUE, text |-> to_string_lossy(cs[Len(cs)].name)]

\* .and_then(|s| s.to_str()).map(String::from).expect(..)
ExpectText(o) ==
    IF o.some /\ to_str(o.bytes).ok THEN [ok |-> TRUE, text |-> to_str(o.bytes).text]
    ELSE [ok |-> FALSE, text |-> <<>>]

\* path.rs: get_file_name
get_file_name(s) == ExpectText(file_name(s))

\* path.rs: get_file_stem
get_file_stem(s) == ExpectText(file_stem(s))

\* get_file_extension ending in expect(..), as its two neighbours do.
get_file_extension_Expect(s) == ExpectText(extension(s))

\* path.rs: get_file_extension: .unwrap_or(String::from(""))
get_file_extension(s) ==
    LET o == extension(s)
    IN  IF o.some /\ to_str(o.bytes).ok THEN [ok |-> TRUE, text |-> to_str(o.bytes).text]
        ELSE [ok |-> TRUE, text |-> <<>>]

\* A call of a function of path.rs on the string s.  The functions are pure:
\* a behaviour makes one call.
PathCall(op, s, r) ==
    /\ CanCall
    /\ nops = 0
    /\ Returned(op, Root, Root, s, r.ok, r.text, fs)

GetLastPathComponent(s) == PathCall("get_last_path_component", s, get_last_path_component_str(s))

GetFileName(s) == PathCall("get_file_name", s, get_file_name(s))

GetFileStem(s) == PathCall("get_file_stem", s, get_file_stem(s))

GetFileExtension(s) == PathCall("get_file_extension", s, get_file_extension(s))

InitPath == fs = Tree({}, {}) /\ cwd = [path |-> Root, gone |-> FALSE] /\ InitCommon

NextPath ==
    \/ \E s \in PathStrings : GetLastPathComponent(s)
    \/ \E s \in PathStrings : GetFileName(s)
    \/ \E s \in PathStrings : GetFileStem(s)
    \/ \E s \in PathStrings : GetFileExtension(s)

SpecPath == InitPath /\ [][NextPath]_vars

TypeOK == WellFormed(fs) /\ WellFormed(pre.fs)

----------------------------------------------------------------------------
(* Claims about the scoped directory guard (SpecGuard) *)

\* The guard the last cd, drop or unwinding drop was about.
LastGuard == guards[last.g]

LastOk(op) == last.op = op /\ last.res = "ok"

C2_GuardLawUnwind ==
    (last.op = "unwind_drop" /\ mode # "abort") =>
        /\ last.res = "ok"
        /\ ~LastGuard.live
        /\ LastGuard.restores = 1
        /\ cwd = [path |-> LastGuard.entered, gone |-> FALSE]

\* A panic that has unwound two nested guards, the outer one last.
C2_Witness ==
    /\ last.op = "unwind_drop"
    /\ mode = "unwind"
    /\ Len(guards) = 2
    /\ last.g = 1
    /\ guards[2].restores = 1
    /\ guards[2].entered # guards[1].entered
    /\ cwd.path = guards[1].entered

AllDroppedInOrder ==
    /\ guards # <<>>
    /\ \A k \in 1..Len(guards) :
          ~guards[k].live /\ guards[k].lifo /\ guards[k].restored

\* C3: nested guards compose.  Dropping a guard sets the working directory to
\* the directory that was current when that guard was constructed, however
\* many other guards are alive; and once every guard has been dropped, each
\* while no guard constructed after it was alive, the working directory is the
\* one the process started in.
C3_NestedGuardsCompose ==
    /\ (last.op \in {"drop", "unwind_drop"} /\ last.res = "ok") =>
          cwd.path = LastGuard.entered
    /\ AllDroppedInOrder => cwd.path = cwd0

\* Two guards, the second constructed inside the scope of the first, both
\* dropped in reverse order of construction.
C3_Witness ==
    /\ AllDroppedInOrder
    /\ Len(guards) = 2
    /\ guards[2].entered # guards[1].entered
    /\ guards[1].entered = cwd0
    /\ last.op = "drop"
    /\ last.g = 1
    /\ cwd.path = cwd0

\* C4: exactly-once restoration.  A live guard has made no restore call, a
\* dropped guard has made exactly one: nothing but the end of a guard's
\* lifetime restores, and that end restores once.
C4_RestoreExactlyOnce ==
    \A k \in 1..Len(guards) :
        /\ guards[k].live => guards[k].restores = 0
        /\ ~guards[k].live => guards[k].restores = 1

\* One guard dropped at the end of its scope and one by an unwinding panic,
\* with a file-system call made in between.
C4_Witness ==
    /\ Len(guards) = 2
    /\ \A k \in 1..2 : ~guards[k].live /\ guards[k].restores = 1
    /\ last.op = "unwind_drop"
    /\ nops > 0

\* C5: failed construction.  cd(target) panics when target is not a directory
\* that exists; a cd that panics leaves the working directory as it was and
\* constructs no guard.
C5_FailedCdChangesNothing ==
    [][/\ (last'.op = "cd" /\ ~is_dir(fs', last'.a)) => last'.res = "panic"
       /\ (last'.op = "cd" /\ last'.res = "panic") =>
             /\ cwd' = cwd
             /\ guards' = guards
             /\ last'.g = Len(guards)]_vars

\* A cd to a path that does not exist, made inside the scope of a live guard.
C5_Witness ==
    /\ last.op = "cd"
    /\ last.res = "panic"
    /\ ~exists(fs, last.a)
    /\ Live # {}
    /\ mode = "unwind"

----------------------------------------------------------------------------
(* Claims about the single-entry operations (SpecFile) *)

\* No proper ancestor of p is a regular file, so create_dir_all can make them all.
AncestorsCreatable(f, p) == \A q \in ProperAncestors(p) : ~is_file(f, q)

AncestorsAreDirs(f, p) == \A q \in ProperAncestors(p) : is_dir(f, q)

\* C6: round trip.  Whenever save_string_to_file(T, P) returns, P is a file
\* that load_file_as_string reads back as exactly T and every parent folder of
\* P exists; the call returns whenever P is not a folder and no ancestor of P
\* is a regular file, whatever P held before; and a load_file_as_string(P)
\* made right after it returns T.
C6_RoundTrip ==
    /\ LastOk("save_string_to_file") =>
          /\ load_file_as_string(fs, last.a) = [ok |-> TRUE, text |-> last.t]
          /\ AncestorsAreDirs(fs, last.a)
    /\ (/\ last.op = "save_string_to_file"
        /\ last.a # Root
        /\ ~is_dir(pre.fs, last.a)
        /\ AncestorsCreatable(pre.fs, last.a)) => last.res = "ok"
    /\ (/\ last.op = "load_file_as_string"
        /\ prev.op = "save_string_to_file"
        /\ prev.res = "ok"
        /\ prev.a = last.a) => last.res = "ok" /\ last.ret = prev.t

\* A text with a two-byte character saved to a path inside a folder and then
\* loaded.
C6_Witness ==
    /\ last.op = "load_file_as_string"
    /\ prev.op = "save_string_to_file"
    /\ prev.a = last.a
    /\ prev.t = <<233, 97>>
    /\ prev.res = "ok"
    /\ last.ret = <<233, 97>>
    /\ Len(last.a) = 2

\* C7: create_folder on a path that does not exist leaves it a folder with
\* all its ancestors (and returns unless an ancestor is a regular file); a
\* second create_folder of the same path returns and changes nothing.  The
\* same for create_folder_for_file and the parent of its argument, and
\* create_folder_for_file never creates or changes its argument itself.
C7_CreateFolderIdempotent ==
    /\ (LastOk("create_folder") /\ ~exists(pre.fs, last.a)) =>
          is_dir(fs, last.a) /\ AncestorsAreDirs(fs, last.a)
    /\ (/\ last.op = "create_folder"
        /\ ~exists(pre.fs, last.a)
        /\ AncestorsCreatable(pre.fs, last.a)) => last.res = "ok"
    /\ (/\ last.op = "create_folder"
        /\ prev.op = "create_folder"
        /\ prev.res = "ok"
        /\ prev.a = last.a) => last.res = "ok" /\ fs = pre.fs
    /\ (/\ LastOk("create_folder_for_file")
        /\ last.a # Root
        /\ ~exists(pre.fs, Parent(last.a))) =>
          is_dir(fs, Parent(last.a)) /\ AncestorsAreDirs(fs, last.a)
    /\ (/\ last.op = "create_folder_for_file"
        /\ last.a # Root
        /\ ~exists(pre.fs, Parent(last.a))
        /\ AncestorsCreatable(pre.fs, Parent(last.a))) => last.res = "ok"
    /\ (/\ last.op = "create_folder_for_file"
        /\ prev.op = "create_folder_for_file"
        /\ prev.res = "ok"
        /\ prev.a = last.a) => last.res = "ok" /\ fs = pre.fs
    /\ last.op = "create_folder_for_file" => Node(fs, last.a) = Node(pre.fs, last.a)

\* A second create_folder of a path whose parent the first call had to create.
C7_Witness ==
    /\ last.op = "create_folder"
    /\ prev.op = "create_folder"
    /\ prev.a = last.a
    /\ Len(last.a) = 2
    /\ last.res = "ok"
    /\ is_dir(fs, last.a)
    /\ \E s \in FileSeeds : ~exists(s, Parent(last.a)) /\ pre.fs = create_folder(s, last.a).fs

\* C8: whenever copy_file(A, B) with B distinct from A returns, B is a file
\* holding the bytes A held and B's parent folder exists; and it returns for
\* every regular file A when B is absent or a regular file and no ancestor of
\* B is a regular file (the parent folders are created).
C8_CopyFileOverwrite ==
    /\ (LastOk("copy_file") /\ last.a # last.b) =>
          /\ is_file(pre.fs, last.a)
          /\ is_file(fs, last.b)
          /\ Node(fs, last.b).data = Node(pre.fs, last.a).data
          /\ AncestorsAreDirs(fs, last.b)
    /\ (/\ last.op = "copy_file"
        /\ last.a # last.b
        /\ is_file(pre.fs, last.a)
        /\ last.b # Root
        /\ ~is_dir(pre.fs, last.b)
        /\ AncestorsCreatable(pre.fs, last.b)) => last.res = "ok"

\* A copy over an existing file with other content.
C8_Witness ==
    /\ LastOk("copy_file")
    /\ last.a # last.b
    /\ is_file(pre.fs, last.b)
    /\ Node(pre.fs, last.b).data # Node(pre.fs, last.a).data
    /\ Node(fs, last.b).data = Node(pre.fs, last.a).data

----------------------------------------------------------------------------
(* Claims about copy_folder (SpecCopy).  pre.fs is the file system when    *)
(* the call began, last.a the source folder A and last.b the destination   *)
(* folder B.                                                               *)

\* The relative paths of the regular files under d.
RelativeFiles(f, d) == {StripPrefix(p, d) : p \in FilesUnder(f, d)}

\* Neither folder is the other or inside the other.
Separate(a, b) == ~IsPrefix(a, b) /\ ~IsPrefix(b, a)

\* C9: whenever copy_folder(A, B) has returned, for every regular file F that
\* was under A, at any depth, the path B joined with F's path relative to A is
\* a regular file holding the bytes F held, whatever was at that path before.
C9_MirrorLaw ==
    LastOk("copy_folder") =>
        \A F \in FilesUnder(pre.fs, last.a) :
            LET d == destination_path(last.a, last.b, F)
            IN  /\ is_file(fs, d)
                /\ Node(fs, d).data = Node(pre.fs, F).data

\* copy_folder(/a, /) on /a/a/b = x, /a/b = y has returned: /a/a/b was copied
\* over /a/b before /a/b was copied to /b, so /b holds x and y is lost.
C9_FailingRun ==
    /\ LastOk("copy_folder")
    /\ last.a = <<"a">> /\ last.b = Root
    /\ Node(pre.fs, <<"a", "a", "b">>) = File(DataX)
    /\ Node(pre.fs, <<"a", "b">>) = File(DataY)
    /\ Node(fs, <<"a", "b">>) = File(DataX)
    /\ Node(fs, <<"b">>) = File(DataX)

\* The mirror law for a destination that is neither the source, nor inside
\* it, nor around it.
MirrorLawSeparate == Separate(last.a, last.b) => C9_MirrorLaw

\* C11: copy_folder panics whenever an error occurs while it copies: it
\* returns only if the source folder existed and every folder under it could
\* be read.
C11_PanicsOnAnyError ==
    LastOk("copy_folder") =>
        /\ exists(pre.fs, last.a)
        /\ \A p \in Paths : IsPrefix(last.a, p) => Node(pre.fs, p).kind # "locked"

\* copy_folder has returned although the source folder did not exist; it
\* changed nothing.
C11_MissingSourceReturns ==
    /\ LastOk("copy_folder")
    /\ ~exists(pre.fs, last.a)
    /\ fs = pre.fs

\* copy_folder has returned, having copied a file, although a folder of the
\* source could not be read.
C11_UnreadableFolderReturns ==
    /\ LastOk("copy_folder")
    /\ Enterable(pre.fs, last.a)
    /\ \E p \in Paths : IsPrefix(last.a, p) /\ Node(pre.fs, p).kind = "locked"
    /\ fs # pre.fs

\* C10: whenever copy_folder(A, B) has returned, every regular file that was
\* under B, and whose path relative to B is not the relative path of a file
\* under A, is still there with the content it had; and everything that
\* existed under B still exists.
C10_Frame ==
    LastOk("copy_folder") =>
        /\ \A G \in FilesUnder(pre.fs, last.b) :
              StripPrefix(G, last.b) \notin RelativeFiles(pre.fs, last.a)
                  => Node(fs, G) = Node(pre.fs, G)
        /\ \A p \in Paths :
              (IsPrefix(last.b, p) /\ exists(pre.fs, p)) => exists(fs, p)

\* copy_folder(/a, /) on /a/a/b = x, /b = y (no /a/b) has returned: the copy
\* /a/b of /a/a/b was itself walked and copied over /b, which no file under
\* /a corresponded to.
C10_FailingRun ==
    /\ LastOk("copy_folder")
    /\ last.a = <<"a">> /\ last.b = Root
    /\ Node(pre.fs, <<"a", "a", "b">>) = File(DataX)
    /\ ~exists(pre.fs, <<"a", "b">>)
    /\ Node(pre.fs, <<"b">>) = File(DataY)
    /\ Node(fs, <<"b">>) = File(DataX)

\* The frame for a destination that is neither the source, nor inside it,
\* nor around it.
FrameSeparate == Separate(last.a, last.b) => C10_Frame

\* The folders at any depth under d, d included.
FoldersUnder(f, d) == {p \in Paths : IsPrefix(d, p) /\ is_dir(f, p)}

\* The path under B that mirrors the path p under A.
Mirror(p) == Join(last.b, StripPrefix(p, last.a))

----------------------------------------------------------------------------
(* Claims about replace_str_in_file and replace_str_in_files (SpecReplace). *)
(* last.a is the path P or the root, last.t = <<old, new>>.                 *)

\* The positions at which old occurs in c.
Occurrences(c, old) == {i \in 1..(Len(c) + 1) : MatchAt(c, old, i)}

\* The occurrences replaced: an occurrence is replaced exactly when it does
\* not overlap a replaced occurrence that starts before it.  Occurrences of
\* a string of at most one character never overlap.
LeftmostMatches(c, old) ==
    IF Len(old) <= 1 THEN Occurrences(c, old)
    ELSE CHOOSE M \in SUBSET Occurrences(c, old) :
            \A i \in Occurrences(c, old) :
                (i \in M) <=> ~\E j \in M : j < i /\ i < j + Len(old)

\* c from position i on, with the occurrences in M replaced by new.
RECURSIVE Substituted(_, _, _, _, _)
Substituted(c, M, i, old, new) ==
    IF i > Len(c) THEN (IF i \in M THEN new ELSE <<>>)
    ELSE IF i \in M /\ old # <<>> THEN new \o Substituted(c, M, i + Len(old), old, new)
    ELSE (IF i \in M THEN new ELSE <<>>) \o <<c[i]>> \o Substituted(c, M, i + 1, old, new)

\* c with all non-overlapping occurrences of old, left to right, replaced.
Replaced(c, old, new) == Substituted(c, LeftmostMatches(c, old), 1, old, new)

\* C14: whenever replace_str_in_file(P, old, new) has returned, P was a text
\* file and now holds its former content with all non-overlapping occurrences
\* of old, scanned left to right and compared character for character,
\* replaced by new; and the call returns for every text file.
C14_ReplaceResult ==
    /\ LastOk("replace_str_in_file") =>
          /\ IsTextFile(pre.fs, last.a)
          /\ IsTextFile(fs, last.a)
          /\ TextOf(fs, last.a) = Replaced(TextOf(pre.fs, last.a), last.t[1], last.t[2])
    /\ (last.op = "replace_str_in_file" /\ IsTextFile(pre.fs, last.a)) => last.res = "ok"

\* "Hello, world, hello, Hello!" with Hello -> Goodbye has become
\* "Goodbye, world, hello, Goodbye!".
C14_Witness ==
    /\ LastOk("replace_str_in_file")
    /\ last.t = <<TextHello, TextGoodbye>>
    /\ TextOf(pre.fs, last.a) = TextGreeting
    /\ TextOf(fs, last.a) =
          TextGoodbye \o <<44, 32, 119, 111, 114, 108, 100, 44, 32>>
              \o <<104, 101, 108, 108, 111, 44, 32>> \o TextGoodbye \o <<33>>

\* C15: replace_str_in_file(P, old, new) writes P exactly when the content of
\* P contains old; when it does not, or when the call panics, nothing is
\* written and the file system is as it was; no other path is ever written.
C15_WritesIffOccurs ==
    last.op = "replace_str_in_file" =>
        /\ last.ret \in {<<>>, <<last.a>>}
        /\ (last.ret = <<last.a>>) <=>
              (IsTextFile(pre.fs, last.a)
                  /\ Occurrences(TextOf(pre.fs, last.a), last.t[1]) # {})
        /\ last.ret = <<>> => fs = pre.fs
        /\ \A p \in Paths \ {last.a} : fs[p] = pre.fs[p]

\* A call on a non-empty text file in which old does not occur has returned
\* without writing.
C15_Witness ==
    /\ LastOk("replace_str_in_file")
    /\ TextOf(pre.fs, last.a) # <<>>
    /\ last.t[1] # <<>>
    /\ last.ret = <<>>
    /\ fs = pre.fs

\* What replace_str_in_files(root, old, new) is to leave at p: a text file
\* under root holds its former text with old replaced; anything else is as
\* it was.
ExpectedAfterReplace(p) ==
    IF IsPrefix(last.a, p) /\ IsTextFile(pre.fs, p)
    THEN File(Utf8Encode(Replaced(TextOf(pre.fs, p), last.t[1], last.t[2])))
    ELSE pre.fs[p]

\* C16: whenever replace_str_in_files(root, old, new) has returned, every
\* text file at any depth under root (root itself when it is a regular file)
\* holds its former content with old replaced by new, the files written are
\* exactly the text files in which old occurred, and every other file and
\* every directory is unchanged.
C16_ReplaceCoverage ==
    LastOk("replace_str_in_files") =>
        /\ \A p \in Paths : fs[p] = ExpectedAfterReplace(p)
        /\ last.ret.written =
              {p \in FilesUnder(pre.fs, last.a) :
                  IsTextFile(pre.fs, p)
                      /\ Occurrences(TextOf(pre.fs, p), last.t[1]) # {}}

\* A call on a folder has returned: a file two levels down was changed and
\* a text file without the string was not written.
C16_Witness ==
    /\ LastOk("replace_str_in_files")
    /\ \E p \in FilesUnder(pre.fs, last.a) :
          Len(p) >= Len(last.a) + 2 /\ fs[p] # pre.fs[p]
    /\ \E p \in FilesUnder(pre.fs, last.a) :
          IsTextFile(pre.fs, p) /\ p \notin last.ret.written

\* The regular files under the root on which the single-file replacement
\* fails: those that cannot be read as text.
FailingFiles == {p \in FilesUnder(pre.fs, last.a) : ~IsTextFile(pre.fs, p)}

\* C17: replace_str_in_files never panics; when it has returned, the
\* single-file replacement was run on every regular file under the root,
\* exactly one diagnostic was printed for each file on which it failed and
\* none for any other, and every file on which it did not fail holds the
\* replaced content.
C17_PerFileTolerance ==
    /\ last.op = "replace_str_in_files" => (last.res # "panic" /\ mode = "run")
    /\ LastOk("replace_str_in_files") =>
          /\ last.ret.tried = FilesUnder(pre.fs, last.a)
          /\ \A p \in FailingFiles :
                Cardinality({i \in DOMAIN last.ret.diag : last.ret.diag[i] = p}) = 1
          /\ \A i \in DOMAIN last.ret.diag : last.ret.diag[i] \in FailingFiles
          /\ \A p \in FilesUnder(pre.fs, last.a) \ FailingFiles :
                fs[p] = ExpectedAfterReplace(p)

\* A call has returned after the replacement failed on two files and
\* succeeded, with a write, on another.
C17_Witness ==
    /\ LastOk("replace_str_in_files")
    /\ Len(last.ret.diag) = 2
    /\ last.ret.written # {}

----------------------------------------------------------------------------
(* Claims about list_folder_contents and the tree printer (SpecTree).      *)
(* Neither call changes the file system; last.a is the folder.             *)

\* p comes before q when their full paths are compared as strings.
StringLess(p, q) == BytesLess(display(p), display(q))

\* C18: whenever list_folder_contents(D) has returned, D is a readable folder
\* and the result holds exactly the immediate children of D, each once and
\* as D joined with its name, in strictly ascending lexicographic order of
\* the full path; the call returns for every readable folder and panics on a
\* regular file and on a path that does not exist.
C18_ListFolderContents ==
    /\ LastOk("list_folder_contents") =>
          /\ Enterable(fs, last.a)
          /\ {last.ret[i] : i \in DOMAIN last.ret}
                = {last.a \o <<n>> : n \in Children(fs, last.a)}
          /\ Len(last.ret) = Cardinality(Children(fs, last.a))
          /\ \A i, j \in DOMAIN last.ret :
                i < j => StringLess(last.ret[i], last.ret[j])
    /\ (last.op = "list_folder_contents" /\ Enterable(fs, last.a)) => last.res = "ok"
    /\ (last.op = "list_folder_contents" /\ ~is_dir(fs, last.a)) => last.res = "panic"

\* A folder with two children, one of them a folder with children of its
\* own, has been listed.
C18_Witness ==
    /\ LastOk("list_folder_contents")
    /\ Len(last.ret) = 2
    /\ \E i \in DOMAIN last.ret : Children(fs, last.ret[i]) # {}

\* The entries at any depth under root, root excluded.
Descendants(f, root) == {p \in Paths : IsPrefix(root, p) /\ p # root /\ exists(f, p)}

\* No sibling of q has a greater name.
IsLastSibling(f, q) ==
    \A n \in Children(f, Parent(q)) :
        ~BytesLess(NameBytes(q[Len(q)]), NameBytes(n))

\* The indentation of the line of p: one segment for each ancestor of p
\* below root, from the i-th level under root to the parent of p.
RECURSIVE Indent(_, _, _, _)
Indent(f, root, p, i) ==
    IF Len(root) + i >= Len(p) THEN <<>>
    ELSE (IF IsLastSibling(f, SubSeq(p, 1, Len(root) + i)) THEN Blank ELSE Bar)
            \o Indent(f, root, p, i + 1)

ExpectedText(f, root, p) ==
    Indent(f, root, p, 1) \o (IF IsLastSibling(f, p) THEN Elbow ELSE Tee)
        \o NameBytes(p[Len(p)])

\* C19: whenever write_folder_tree(root) has returned, the output is the
\* root path on the first line followed by exactly one line per descendant
\* of root, and the line of an entry at depth d is d - 1 segments of four
\* characters (blank for an ancestor that is the last sibling at its level,
\* the vertical bar otherwise), the connector (the elbow if the entry is the
\* last sibling, the tee otherwise) and the entry's last path component.
C19_LineShape ==
    LastOk("write_folder_tree") =>
        /\ Len(last.ret) = 1 + Cardinality(Descendants(fs, last.a))
        /\ last.ret[1] = Line(display(last.a), last.a)
        /\ {last.ret[k].entry : k \in 2..Len(last.ret)} = Descendants(fs, last.a)
        /\ \A k \in 2..Len(last.ret) :
              /\ last.ret[k].text = ExpectedText(fs, last.a, last.ret[k].entry)
              /\ Len(last.ret[k].text) =
                    4 * (Len(last.ret[k].entry) - Len(last.a))
                        + Len(NameBytes(last.ret[k].entry[Len(last.ret[k].entry)]))

\* A tree has been drawn with an entry three levels down, a line indented
\* with the bar and a line indented with blanks.
C19_Witness ==
    /\ LastOk("write_folder_tree")
    /\ \E k \in 2..Len(last.ret) : Len(last.ret[k].entry) = Len(last.a) + 3
    /\ \E k \in 2..Len(last.ret) : SubSeq(last.ret[k].text, 1, 4) = Bar
    /\ \E k \in 2..Len(last.ret) : SubSeq(last.ret[k].text, 1, 4) = Blank

\* p is written before q in depth-first pre-order with ascending siblings:
\* p is an ancestor of q, or at the first level where they differ p's
\* component is the smaller.
PreOrderBefore(p, q) ==
    \/ IsPrefix(p, q) /\ p # q
    \/ \E n \in 1..Len(p) :
          /\ n <= Len(q)
          /\ SubSeq(p, 1, n - 1) = SubSeq(q, 1, n - 1)
          /\ BytesLess(NameBytes(p[n]), NameBytes(q[n]))

\* C20: whenever write_folder_tree(root) has returned, the lines are in
\* depth-first pre-order with siblings ascending; the lines of the
\* descendants of a folder follow its line contiguously; no line is under a
\* regular file; and the output is the one every order of reading the
\* folders gives.
C20_TreeOrder ==
    LastOk("write_folder_tree") =>
        /\ \A i, j \in 2..Len(last.ret) :
              i < j => PreOrderBefore(last.ret[i].entry, last.ret[j].entry)
        /\ \A i, k, j \in 2..Len(last.ret) :
              (i < k /\ k < j /\ IsPrefix(last.ret[i].entry, last.ret[j].entry))
                  => IsPrefix(last.ret[i].entry, last.ret[k].entry)
        /\ \A k \in 2..Len(last.ret) :
              \A q \in ProperAncestors(last.ret[k].entry) : ~is_file(fs, q)
        /\ \A order \in Perms(Names), overflow_checks \in BOOLEAN :
              write_folder_tree(fs, last.a, order, overflow_checks).out = last.ret

\* A tree has been drawn in which a folder's line is followed by the line
\* of its child and then by the line of its next sibling.
C20_Witness ==
    /\ LastOk("write_folder_tree")
    /\ \E i, j, k \in 2..Len(last.ret) :
          /\ i < j /\ j < k
          /\ Parent(last.ret[j].entry) = last.ret[i].entry
          /\ Parent(last.ret[k].entry) = Parent(last.ret[i].entry)

----------------------------------------------------------------------------
(* Claims about delete_folder and delete_file (SpecDelete) *)

\* Every path outside the tree at p is as it was when the call began.
SameOutside(p) == \A q \in Paths : ~IsPrefix(p, q) => fs[q] = pre.fs[q]

\* C21: delete_folder(P) and delete_file(P) return and change nothing when P
\* does not exist.  When delete_file(P) returns for a regular file P, P is
\* gone; when delete_folder(P) returns for a folder P, P and everything
\* beneath it are gone; nothing else is touched.
C21_Delete ==
    /\ (last.op \in {"delete_folder", "delete_file"} /\ ~exists(pre.fs, last.a)) =>
          last.res = "ok" /\ fs = pre.fs
    /\ (LastOk("delete_file") /\ is_file(pre.fs, last.a)) =>
          /\ ~exists(fs, last.a)
          /\ SameOutside(last.a)
    /\ (LastOk("delete_folder") /\ is_dir(pre.fs, last.a)) =>
          /\ \A q \in Paths : IsPrefix(last.a, q) => ~exists(fs, q)
          /\ SameOutside(last.a)

\* A folder holding a file and a subfolder is deleted after a delete_file call.
C21_Witness ==
    /\ LastOk("delete_folder")
    /\ FilesUnder(pre.fs, last.a) # {}
    /\ \E q \in Paths : q # last.a /\ IsPrefix(last.a, q) /\ is_dir(pre.fs, q)
    /\ ~exists(fs, last.a)
    /\ prev.op = "delete_file"
    /\ prev.res = "ok"

----------------------------------------------------------------------------
(* Claims about two threads using guards (SpecRace) *)

\* The thread whose guard the last set_current_dir was made for.
LastSetter == {t \in Threads : threads[t].g = last.g /\ last.g # 0}

AllThreadsDone == \A t \in Threads : threads[t].pc = "done"

\* C22: the working directory is shared and unguarded.  A thread inside its
\* scope finds the working directory different from its target exactly when
\* the last set_current_dir was made by the other thread, and when both
\* guards have been dropped the working directory is the one captured by the
\* guard dropped last, whatever the process started in.  (That both happen
\* is shown by the state C22_Witness describes.)
C22_Race ==
    /\ \A t \in Threads :
          (threads[t].pc = "scope" /\ cwd.path # threads[t].target) =>
              /\ t \notin LastSetter
              /\ last.op \in {"thread_cd", "thread_drop"}
    /\ \A t \in Threads :
          (threads[t].pc = "scope" /\ last.op = "thread_cd" /\ t \in LastSetter) =>
              cwd.path = threads[t].target
    /\ AllThreadsDone =>
          /\ last.op = "thread_drop"
          /\ cwd.path = LastGuard.original_cwd

\* Both threads have dropped their guards: one of them read, inside its
\* scope, a working directory that was not its target, and the process ends
\* in a directory other than the one it started in.
C22_Witness ==
    /\ AllThreadsDone
    /\ cwd.path # cwd0
    /\ \E t \in Threads : \E d \in threads[t].saw : d # threads[t].target

----------------------------------------------------------------------------
(* Claims about the parts of a path (SpecPath).  last.t is the path string *)
(* the function was called with and last.ret the text it returned.         *)

\* What may follow the file name in a path: separators and "." pieces.
IsTrail(r) ==
    /\ \A i \in 1..Len(r) : r[i] \in {Slash, Dot}
    /\ r # <<>> => r[1] = Slash
    /\ \A i \in 2..Len(r) : r[i] = Dot => r[i - 1] = Slash

\* s[i..j] is the file name of s: a whole piece, not "." or "..", with only
\* a trail after it.
IsFileNameAt(s, i, j) ==
    /\ i <= j
    /\ \A k \in i..j : s[k] # Slash
    /\ SubSeq(s, i, j) \notin {<<Dot>>, <<Dot, Dot>>}
    /\ i = 1 \/ s[i - 1] = Slash
    /\ IsTrail(SubSeq(s, j + 1, Len(s)))

HasFileName(s) == \E i, j \in 1..Len(s) : IsFileNameAt(s, i, j)

FileNameOf(s) ==
    LET ij == CHOOSE ij \in (1..Len(s)) \X (1..Len(s)) : IsFileNameAt(s, ij[1], ij[2])
    IN  SubSeq(s, ij[1], ij[2])

\* A file name has an extension when a dot follows its first character; the
\* extension is what follows its last dot and the stem what precedes it.
HasExtension(s) ==
    HasFileName(s) /\ \E k \in 2..Len(FileNameOf(s)) : FileNameOf(s)[k] = Dot

LastDot(n) == CHOOSE k \in 1..Len(n) : n[k] = Dot /\ \A j \in (k + 1)..Len(n) : n[j] # Dot

ExtensionOf(s) ==
    LET n == FileNameOf(s) IN SubSeq(n, LastDot(n) + 1, Len(n))

StemOf(s) ==
    LET n == FileNameOf(s)
    IN  IF HasExtension(s) THEN SubSeq(n, 1, LastDot(n) - 1) ELSE n

\* The bytes are the UTF-8 encoding of some text.
IsText(b) == \A i \in 1..Len(b) : b[i] < 128

\* The claim as stated: get_file_extension returns for every path, the empty
\* string when the path has no extension and the extension otherwise.
C23_ExtensionOrEmpty ==
    last.op = "get_file_extension" =>
        /\ last.res = "ok"
        /\ IF HasExtension(last.t) THEN Utf8Encode(last.ret) = ExtensionOf(last.t)
           ELSE last.ret = <<>>

\* C23: get_file_extension returns for every path: the extension, without
\* the dot, when the path has an extension that is UTF-8 text, and the empty
\* string otherwise.  get_file_name and get_file_stem panic exactly on the
\* paths with no file name or with a name or stem that is not UTF-8 text, and
\* get_last_path_component exactly on the empty path.
C23_ExtensionTotal ==
    /\ last.op = "get_file_extension" =>
          /\ last.res = "ok"
          /\ IF HasExtension(last.t) /\ IsText(ExtensionOf(last.t))
             THEN Utf8Encode(last.ret) = ExtensionOf(last.t)
             ELSE last.ret = <<>>
    /\ last.op = "get_file_name" =>
          IF HasFileName(last.t) /\ IsText(FileNameOf(last.t))
          THEN last.res = "ok" /\ Utf8Encode(last.ret) = FileNameOf(last.t)
          ELSE last.res = "panic"
    /\ last.op = "get_file_stem" =>
          IF HasFileName(last.t) /\ IsText(StemOf(last.t))
          THEN last.res = "ok" /\ Utf8Encode(last.ret) = StemOf(last.t)
          ELSE last.res = "panic"
    /\ last.op = "get_last_path_component" =>
          (last.res = "panic" <=> last.t = <<>>)

\* get_file_extension called on a name whose extension is not UTF-8 text,
\* such as "a." followed by the byte 0xFF.
C23_Witness ==
    /\ LastOk("get_file_extension")
    /\ HasExtension(last.t)
    /\ ~IsText(ExtensionOf(last.t))
    /\ IsText(StemOf(last.t))
    /\ last.ret = <<>>

----------------------------------------------------------------------------
(* Claims about a copy_folder that fails (SpecCopy).  last.ret holds the   *)
(* copies the call has made and last.t the entry it panicked on.           *)

\* std::fs::copy(src, dst), after the folders for dst are made, can succeed.
CopyCanSucceed(f, src, dst) ==
    /\ is_file(f, src)
    /\ dst \in Paths /\ dst # Root
    /\ ~is_dir(f, dst)
    /\ \A q \in ProperAncestors(dst) : ~exists(f, q) \/ Enterable(f, q)

\* The copies made so far are all in place, and nothing else has changed in
\* a file.
CopiesInPlace ==
    /\ \A c \in last.ret : Node(fs, c.to) = File(c.data)
    /\ \A p \in Paths :
          (is_file(fs, p) /\ fs[p] # pre.fs[p]) => \E c \in last.ret : c.to = p
    /\ \A p \in Paths : is_file(pre.fs, p) => is_file(fs, p)

\* C24: copy_folder fails fast and does not roll back.  It panics only on a
\* regular file of the source whose copy cannot succeed, in the iteration
\* that yields it; every copy made before is still at its destination with
\* the content copied, no file has been removed, and nothing is copied after
\* the panic.
C24_FailFast ==
    /\ last.op = "copy_folder" => CopiesInPlace
    /\ (last.op = "copy_folder" /\ last.res = "panic") =>
          /\ pc = "idle" /\ mode = "unwind"
          /\ Len(last.t) = 1
          /\ is_file(fs, last.t[1])
          /\ IsPrefix(last.a, last.t[1])
          /\ \/ last.t[1] = last.a
             \/ ~CopyCanSucceed(fs, last.t[1],
                                 Join(last.b, StripPrefix(last.t[1], last.a)))
    /\ (last.op = "copy_folder" /\ last.res # "panic") =>
          \A c \in last.ret : CopyCanSucceed(fs, c.from, c.to)

\* copy_folder has panicked after copying a file into a destination separate
\* from the source, and a file of the source has no copy.
C24_Witness ==
    /\ last.op = "copy_folder" /\ last.res = "panic"
    /\ Separate(last.a, last.b)
    /\ last.ret # {}
    /\ \A c \in last.ret : Node(fs, c.to) = File(c.data)
    /\ \E p \in FilesUnder(fs, last.a) :
          /\ p # last.t[1]
          /\ \A c \in last.ret : c.from # p

\* C25: finite traversal.  Every copy_folder call that begins ends, by
\* returning or by panicking, also when the destination is inside the source
\* and the entries the call creates appear in directories it is reading.
C25_Terminates == (pc = "copy_folder") ~> (pc = "idle")

\* A call with its destination inside its source has ended after copying a
\* file that it had itself created.
C25_Witness ==
    /\ last.op = "copy_folder"
    /\ pc = "idle"
    /\ IsPrefix(last.a, last.b) /\ last.a # last.b
    /\ \E c \in last.ret : IsPrefix(last.b, c.from) /\ ~exists(pre.fs, c.from)

----------------------------------------------------------------------------
(* Claims about the order of drops in one thread (SpecGuard) *)

AllDropped == guards # <<>> /\ Live = {}

\* C26: guards dropped in any order.  Right after a drop that returns, the
\* working directory is the original_cwd held by the guard just dropped,
\* whichever guards are still alive; so once every guard has been dropped it
\* is the original of the guard dropped last, and that is the directory the
\* process started in when each guard was dropped while it was the newest
\* one alive.  (C26_Witness is a run in another order that ends elsewhere.)
C26_DropOrder ==
    /\ (last.op \in {"drop", "unwind_drop"} /\ last.res = "ok") =>
          cwd = [path |-> LastGuard.original_cwd, gone |-> FALSE]
    /\ (AllDropped /\ last.op \in {"drop", "unwind_drop"} /\ last.res = "ok") =>
          /\ cwd.path = LastGuard.original_cwd
          /\ (\A k \in 1..Len(guards) : guards[k].lifo /\ guards[k].restored) =>
                 LastGuard.original_cwd = cwd0

\* Two nested guards, the outer one dropped first: after both drops the
\* process is in the outer guard's target, not where it started.
C26_Witness ==
    /\ AllDropped
    /\ Len(guards) = 2
    /\ ~guards[1].lifo
    /\ LastOk("drop") /\ last.g = 2
    /\ guards[1].original_cwd = cwd0
    /\ cwd.path = guards[2].original_cwd
    /\ cwd.path # cwd0

----------------------------------------------------------------------------
(* Claims about what create_folder leaves behind (SpecFile) *)

\* C27: whenever create_folder(P) returns, P is a directory, whatever P was
\* before (absent, a directory, a regular file); whenever
\* create_folder_for_file(F) returns, the parent of F is a directory.
C27_CreateFolderPostcondition ==
    /\ LastOk("create_folder") => is_dir(fs, last.a)
    /\ (LastOk("create_folder_for_file") /\ last.a # Root) =>
          is_dir(fs, Parent(last.a))

\* create_folder has returned on a path that holds a regular file, and the
\* file is still there.
C27_FileInTheWay ==
    /\ LastOk("create_folder")
    /\ is_file(pre.fs, last.a)
    /\ is_file(fs, last.a)
    /\ fs = pre.fs

\* The postcondition when no regular file is at the path: P absent or a
\* directory before the call.
FolderMadeUnlessFile ==
    /\ (LastOk("create_folder") /\ ~is_file(pre.fs, last.a)) => is_dir(fs, last.a)
    /\ (LastOk("create_folder_for_file") /\ last.a # Root
            /\ ~is_file(pre.fs, Parent(last.a))) => is_dir(fs, Parent(last.a))

----------------------------------------------------------------------------
(* Claims about repeating a replacement (SpecReplace) *)

\* The last call repeated the call before it: same file, same old and new.
SecondIdenticalCall ==
    /\ last.op = "replace_str_in_file"
    /\ prev.op = "replace_str_in_file" /\ prev.res = "ok"
    /\ prev.a = last.a /\ prev.t = last.t

\* The claim as stated: for old non-empty and new not containing old, the
\* content after the call contains no occurrence of old, and a second
\* identical call writes nothing and leaves the file as it was.
C28_Idempotent ==
    (LastOk("replace_str_in_file") /\ last.t[1] # <<>>
        /\ Occurrences(last.t[2], last.t[1]) = {}) =>
        /\ Occurrences(TextOf(fs, last.a), last.t[1]) = {}
        /\ SecondIdenticalCall => (last.ret = <<>> /\ fs = pre.fs)

\* C28: a second identical call of replace_str_in_file returns, writes
\* exactly when the content the first call left still contains old, and
\* otherwise leaves the file as the first call left it.  When old is a single
\* character that new does not contain, the content after a call contains no
\* occurrence of old, and the second call writes nothing.
C28_SecondCall ==
    /\ SecondIdenticalCall =>
          /\ last.res = "ok"
          /\ last.ret # <<>> <=> Occurrences(TextOf(pre.fs, last.a), last.t[1]) # {}
          /\ last.ret = <<>> => fs = pre.fs
    /\ (LastOk("replace_str_in_file") /\ Len(last.t[1]) = 1
            /\ Occurrences(last.t[2], last.t[1]) = {}) =>
          /\ Occurrences(TextOf(fs, last.a), last.t[1]) = {}
          /\ SecondIdenticalCall => (last.ret = <<>> /\ fs = pre.fs)

\* "aaa" with aa -> a became "aa", which the second identical call found to
\* contain aa and rewrote as "a".
C28_Witness ==
    /\ SecondIdenticalCall
    /\ LastOk("replace_str_in_file")
    /\ last.t = <<<<97, 97>>, <<97>>>>
    /\ TextOf(pre.fs, last.a) = <<97, 97>>
    /\ last.ret # <<>>
    /\ TextOf(fs, last.a) = <<97>>

----------------------------------------------------------------------------
(* Claims about how often replace_str_in_files touches a file (SpecReplace) *)

\* How many times p is in the sequence of calls.
TimesCalled(calls, p) == Cardinality({i \in DOMAIN calls : calls[i] = p})

\* C29: single application per file.  While replace_str_in_files runs, no
\* file has had replace_str_in_file called on it twice; when it has returned,
\* the call was made exactly once on each regular file under the root and on
\* nothing else, and each text file holds one pass of the replacement over
\* the content it had: where old occurred and new contains old, the content
\* is not what str::replace would have made of it in a second pass.
C29_SinglePass ==
    /\ pc = "replace_str_in_files" =>
          \A p \in Paths : TimesCalled(walk.calls, p) <= 1
    /\ LastOk("replace_str_in_files") =>
          /\ \A p \in Paths :
                TimesCalled(last.ret.calls, p) =
                    IF p \in FilesUnder(pre.fs, last.a) THEN 1 ELSE 0
          /\ \A p \in FilesUnder(pre.fs, last.a) :
                IsTextFile(pre.fs, p) =>
                   LET c == TextOf(pre.fs, p)
                       once == Replaced(c, last.t[1], last.t[2])
                   IN  /\ IsTextFile(fs, p)
                       /\ TextOf(fs, p) = once
                       /\ (Occurrences(c, last.t[1]) # {}
                              /\ Occurrences(last.t[2], last.t[1]) # {}
                              /\ last.t[1] # last.t[2]) =>
                             TextOf(fs, p) # str_replace(once, last.t[1], last.t[2])

\* replace_str_in_files(/, a, aa) has returned: "aaa" has become "aaaaaa" and,
\* one folder down, "aAa" has become "aaAaa".
C29_Witness ==
    /\ LastOk("replace_str_in_files")
    /\ last.a = Root
    /\ last.t = <<<<97>>, <<97, 97>>>>
    /\ \E p, q \in FilesUnder(pre.fs, Root) :
          /\ TextOf(pre.fs, p) = TextAAA
          /\ TextOf(fs, p) = TextAAA \o TextAAA
          /\ Len(q) >= 2
          /\ TextOf(pre.fs, q) = TextALA
          /\ TextOf(fs, q) = <<97, 97, 65, 97, 97>>

----------------------------------------------------------------------------
(* Claims about empty folders in the tree (SpecTree) *)

\* The connector of the line written for an entry under root.
ConnectorOf(line, root) ==
    LET d == Len(line.entry) - Len(root)
    IN  SubSeq(line.text, 4 * (d - 1) + 1, 4 * d)

\* The lines written for the children of the folder d.
ChildLines(out, d) ==
    {k \in 2..Len(out) : Len(out[k].entry) = Len(d) + 1 /\ IsPrefix(d, out[k].entry)}

\* The child of d whose name is the last in ascending order.
GreatestChild(f, d) ==
    CHOOSE n \in Children(f, d) :
        \A m \in Children(f, d) \ {n} : BytesLess(NameBytes(m), NameBytes(n))

\* Every folder from d down can be read.
ReadableTree(f, d) ==
    /\ Enterable(f, d)
    /\ \A q \in Paths : IsPrefix(d, q) => Node(f, q).kind # "locked"

\* C30: write_folder_tree returns on every tree whose folders can be read,
\* empty folders and an empty root included, in a build with overflow checks
\* as in one without.  A folder with no children has its own line and no
\* child line; a folder with children has one line per child, exactly one of
\* them with the elbow connector, the child last in ascending order, and the
\* others with the tee.
C30_EmptyFolders ==
    /\ (last.op = "write_folder_tree" /\ ReadableTree(fs, last.a)) => last.res = "ok"
    /\ LastOk("write_folder_tree") =>
          \A d \in {last.a} \cup {last.ret[k].entry : k \in 2..Len(last.ret)} :
              is_dir(fs, d) =>
                 LET lines == ChildLines(last.ret, d)
                 IN  /\ Cardinality(lines) = Cardinality(Children(fs, d))
                     /\ \E k \in 1..Len(last.ret) : last.ret[k].entry = d
                     /\ Children(fs, d) # {} =>
                           /\ Cardinality({k \in lines :
                                  ConnectorOf(last.ret[k], last.a) = Elbow}) = 1
                           /\ \A k \in lines :
                                 IF last.ret[k].entry = d \o <<GreatestChild(fs, d)>>
                                 THEN ConnectorOf(last.ret[k], last.a) = Elbow
                                 ELSE ConnectorOf(last.ret[k], last.a) = Tee

\* A tree has been drawn in which an empty folder's line is followed by the
\* line of its sibling, next to a folder with two children.
C30_Witness ==
    /\ LastOk("write_folder_tree")
    /\ \E k \in 2..(Len(last.ret) - 1) :
          /\ is_dir(fs, last.ret[k].entry)
          /\ Children(fs, last.ret[k].entry) = {}
          /\ Parent(last.ret[k + 1].entry) = Parent(last.ret[k].entry)
    /\ \E k \in 2..Len(last.ret) : Cardinality(Children(fs, last.ret[k].entry)) = 2

\* The tree of an empty root has been drawn: the root's line and no other.
EmptyRootDrawn ==
    /\ LastOk("write_folder_tree")
    /\ Children(fs, last.a) = {}
    /\ Len(last.ret) = 1

====
